---- MODULE Spec2Model ----
(***************************************************************************)
(* WebTiebaManager: the content-update classifier, the spider and crawler, *)
(* the per-user processing and confirmation path, the lifecycle controller *)
(* and the event bus, as state machines translated from the Python source. *)
(***************************************************************************)
EXTENDS Integers, Sequences, FiniteSets, TLC

(***************************************************************************)
(* Part 1.  Content table, classifier, spider, crawler                     *)
(*          src/src/db/interface.py, src/src/tieba/crawler.py              *)
(***************************************************************************)

\* Bound on the broadcasts counted for one pid.
MaxDispatched == 2

\* Python's None for an absent marker (getattr(content, "last_time", None)).
None == -1

\* UpdateStatus atoms and derived groups.
NEW_WITH_CHILD == "NEW_WITH_CHILD"
ST_NEW == "NEW"
UPDATED == "UPDATED"
ST_UNCHANGED == "UNCHANGED"
IS_NEW == {ST_NEW, NEW_WITH_CHILD}
IS_STABLE == {ST_UNCHANGED, ST_NEW}
HAS_CHANGES == {UPDATED, NEW_WITH_CHILD}

\* Threshold of the classifier for a first-sighted Post.
PostChildThreshold == 4

\* Upstream content of the one monitored forum: one thread, its first-floor
\* post, one reply and one sub-reply of that reply.
ThreadPid == "t1"
PostPid == "p2"
CommentPid == "c3"
FirstFloorPid == "p1"
Pids == {ThreadPid, PostPid, CommentPid, FirstFloorPid}

ThreadLastTimes == {1, 2}
ThreadReplyNums == {0, 1}
PostReplyNums == {0, 4, 5}

ThreadItem(lt, rn) ==
    [pid |-> ThreadPid, kind |-> "thread", floor |-> 1, last_time |-> lt, reply_num |-> rn]
PostItem(pid, fl, rn) ==
    [pid |-> pid, kind |-> "post", floor |-> fl, last_time |-> None, reply_num |-> rn]
CommentItem ==
    [pid |-> CommentPid, kind |-> "comment", floor |-> 2, last_time |-> None, reply_num |-> None]
NoItem ==
    [pid |-> "none", kind |-> "none", floor |-> 0, last_time |-> None, reply_num |-> None]

\* CrawlNeed: the aggregate of a forum is never empty (update_needs drops
\* empty entries).
CrawlNeed == [thread : BOOLEAN, post : BOOLEAN, comment : BOOLEAN]
is_empty(n) == ~(n.thread \/ n.post \/ n.comment)
Needs == {n \in CrawlNeed : ~is_empty(n)}

VARIABLES
    content,        \* content table: pid -> row (last_time, reply_num, fresh)
    pc,             \* position of Spider.crawl / Crawler.crawl
    need,           \* CrawlNeed of the running pass
    raw_threads,    \* Spider.crawl: raw_threads still to visit
    raw_posts,      \* Spider.crawl: raw_posts still to visit
    raw_comments,   \* Spider.crawl: raw_comments still to visit
    updated,        \* Spider.crawl: status of the item just classified
    classified,     \* pid of the item just classified
    pending,        \* item yielded by the spider, held by Crawler.crawl
    saved,          \* Crawler.crawl: the pending item has been saved
    dispatched,     \* per pid: DispatchContent broadcasts since its row was created
    lastCall,       \* the latest classifier call, if no other write followed it
    pair            \* latest two classifier calls in succession on one pid

crawlVars == <<content, pc, need, raw_threads, raw_posts, raw_comments, updated,
               classified, pending, saved, dispatched>>
callVars == <<lastCall, pair>>

VARIABLES
    config,         \* User.config, from which User.processer is built
    client_status,  \* User.client.status
    confirm,        \* User.confirm: pid -> ConfirmData
    proc,           \* the latest run of User.process under the current config
    opsrun,         \* per pid: client operations run since it was last processed
    runs,           \* per pid: runs of the stored group by operate_confirm
    settled,        \* per pid: an execute by pid has completed on the entry
    reqs            \* confirmation requests in flight and their outcome

userVars == <<config, client_status, confirm, proc, opsrun, runs, settled, reqs>>

VARIABLES
    running,        \* Controller.running
    scan,           \* Controller.config.scan
    disk,           \* user directories: username -> stored UserConfig
    users,          \* UserManager.users: username -> UserConfig
    needs,          \* Crawler.needs: fname -> CrawlNeed
    task            \* Crawler.task is set

ctlVars == <<running, scan, disk, users, needs, task>>

VARIABLES
    listeners,      \* AsyncEvent._listeners
    registered,     \* calls of on() so far
    unregistered,   \* ids of the wrappers whose un_register has returned
    gathering,      \* coroutines of the broadcast in progress, not yet run
    calls,          \* per function: calls during the latest broadcast
    expected,       \* per function: registrations when the broadcast was called
    outcome         \* how the latest broadcast ended

busVars == <<listeners, registered, unregistered, gathering, calls, expected, outcome>>

VARIABLES
    entries,        \* the backend of an ExpireCache: key -> entry
    expire_time,    \* ExpireCache.expire_time
    sets,           \* calls of ExpireCache.set so far
    changes,        \* calls of ExpireCache.set_expire_time so far
    got,            \* the latest get() or values() and what it returned
    exp,            \* ExpireCache.expire in progress
    chg             \* ExpireCache.set_expire_time in progress

cacheVars == <<entries, expire_time, sets, changes, got, exp, chg>>

VARIABLES
    post_scan,      \* Controller.config.scan as Spider.crawl reads it
    total_page,     \* total_page of the thread descended into
    pages,          \* Spider.crawl: post pages still to fetch
    fetched,        \* per post page: requests in this descent
    ppc             \* position of the descent

pageVars == <<post_scan, total_page, pages, fetched, ppc>>

VARIABLES
    dialect,        \* Database.engine.dialect.name
    rows,           \* the content table, row by row
    lastSave        \* the latest save_items call, if no other write followed it

tableVars == <<dialect, rows, lastSave>>

VARIABLES
    conditions,     \* RuleConfig.conditions of the rule: options.valid and priority
    rule_whitelist, \* RuleConfig.whitelist of the rule
    order,          \* ConditionGroup.order, once the Processer is built
    listed,         \* the lists of the Processer that hold the rule
    examined,      \* indices of the conditions checked for the current content
    rpc             \* position: the Processer is built, a check is running

ruleVars == <<conditions, rule_whitelist, order, listed, examined, rpc>>

VARIABLES
    events,         \* the broadcasts begun on Controller.Start and Controller.Stop
    sent,           \* the broadcasts begun on Controller.SystemConfigChange
    flying,         \* per event: broadcasts whose listeners have not run yet
    file,           \* the system configuration file
    ctl_call        \* the latest call of a Controller method

callsVars == <<events, sent, flying, file, ctl_call>>

VARIABLES
    tieba,          \* User.client: the cookies given, status and _client
    upstream,       \* del_thread, del_post and block requests sent upstream
    plog,           \* process logs saved by Processer.resolve
    oper            \* the latest User.process that hit a rule

tiebaVars == <<tieba, upstream, plog, oper>>

VARIABLES
    user_level,     \* the user_level table of one forum: user_id -> level
    user_levels,    \* Crawler.crawl: user_levels of the pass in progress
    observed,       \* per user_id: the highest level in any content crawled
    passes,         \* passes of Crawler.crawl begun so far
    lvpc            \* position of Crawler.crawl: between passes or in one

levelVars == <<user_level, user_levels, observed, passes, lvpc>>

VARIABLES
    gen,            \* Spider.crawl as a generator: its position and raw lists
    returned,       \* what the upstream returned, in order, layer by layer
    yielded         \* the items yielded in the pass, in order

orderVars == <<gen, returned, yielded>>

VARIABLES
    clock,          \* time.monotonic()
    eta,            \* Spider.eta.eta
    holders,        \* acquisitions of Spider.eta entered and not yet left
    plan,           \* Spider.crawl: the steps of the pass still to run
    timing          \* start and end of the latest request, end of the one before

etaVars == <<clock, eta, holders, plan, timing>>

VARIABLES
    cfg_scan,       \* Controller.config.scan: the page counts and query_cd
    spider_cd,      \* Crawler.spider.eta.cd, or None while there is no spider
    loop,           \* the event loop: callbacks ready to run, in order
    crawl_tasks,    \* the tasks created on Crawler.crawl
    cur_task,       \* Crawler.task: the id of a task, or 0
    broadcasts,     \* broadcasts of SystemConfigChange so far
    last_request    \* the latest upstream request and what it used

restartVars == <<cfg_scan, spider_cd, loop, crawl_tasks, cur_task, broadcasts, last_request>>

VARIABLES
    at,             \* where the crawl task stands in Crawler.crawl / Spider.crawl
    page,           \* pn of the request about to be made
    got_threads,    \* Spider.crawl: the threads gathered from the thread pages
    tidx,           \* index of the thread being descended into
    got_posts,      \* Spider.crawl: the posts gathered for that thread
    pidx,           \* index of the post being looked at
    later,          \* post pages still to request for that thread
    errors,         \* messages logged since the pass began
    attempt,            \* the latest upstream request of the pass and its outcome
    ended           \* how the previous pass left the forum loop

passVars == <<at, page, got_threads, tidx, got_posts, pidx, later, errors, attempt, ended>>

VARIABLES
    user_objs,      \* the User objects constructed so far: username and valid
    manager_users,  \* UserManager.users: username -> the User object, or 0
    dispatch,       \* Controller.DispatchContent._listeners, by User object
    creations,      \* calls of User.create so far
    received        \* the latest DispatchContent broadcast: who got it

workerVars == <<user_objs, manager_users, dispatch, creations, received>>

VARIABLES
    pass_tasks,     \* the tasks created on Crawler.crawl: where each stands
    pass_cur,       \* Crawler.task: the id of a task, or 0
    item_task,      \* per item yielded: the task that broadcast it, or 0
    invocations,    \* per user and item: where that call of User.process stands
    cancelling,     \* the items whose gather has been cancelled
    process_started \* per user: the items whose processing began, in order

seqVars == <<pass_tasks, pass_cur, item_task, invocations, cancelling, process_started>>

VARIABLES
    worker_cfgs,    \* UserManager.users: per username what update_needs reads
    crawler_needs,  \* Crawler.needs: forum name -> CrawlNeed
    needs_fresh     \* update_needs has returned and no user changed since

needVars == <<worker_cfgs, crawler_needs, needs_fresh>>

VARIABLES
    rule_logic,       \* RuleConfig.logic as the tree ast.parse gives, or NoLogic
    assignment,       \* the results handed to evaluate_expression
    groups,           \* what priority_groups returned
    evaluation,       \* what evaluate_expression returned
    rule_conditions,  \* the conditions of the rule, index -> valid, priority
    holds,            \* per index what condition.check gives for the content
    group_order,      \* ConditionGroup.order
    step_results,     \* the results of the conditions checked so far
    checked,          \* the indices checked for the content, in order
    check_result,     \* what Rule.check returned
    lpc               \* where the rule is: config, ready, checking, done

logicVars == <<rule_logic, assignment, groups, evaluation, rule_conditions, holds,
               group_order, step_results, checked, check_result, lpc>>

VARIABLES
    sys_running,    \* Controller.running
    caller,         \* where the caller of Controller.start and stop is
    ready,          \* the ready queue of the event loop: tasks in order
    suspended,      \* the tasks that wait for the network, the disk or the database
    tpc,            \* per task where it is
    engine,         \* Database.engine: unset, creating, started, disposing, disposed
    disk_users,     \* there are user directories with rules and a forum
    has_users,         \* UserManager.users is not empty
    has_needs,      \* Crawler.needs is not empty
    has_task,       \* Crawler.task is set
    op_seen,        \* the states of the database at the crawl task's operations
    cancelled_at    \* the states of the database at task.cancel() on Stop

lifeVars == <<sys_running, caller, ready, suspended, tpc, engine, disk_users, has_users,
              has_needs, has_task, op_seen, cancelled_at>>

VARIABLES
    cleanup_time,       \* Controller.config.cleanup_time
    clear_cache_time,   \* CacheCleaner._clear_cache_time
    scheduler,          \* CacheCleaner._clear_cache_scheduler: exists, running, jobs, pending
    cleaner_call        \* the latest call of CacheCleaner and whether it raised

cleanerVars == <<cleanup_time, clear_cache_time, scheduler, cleaner_call>>

\* The variables of the other parts of the system.
outsideCrawl == <<userVars, ctlVars, busVars, cacheVars, pageVars, tableVars, ruleVars, callsVars, tiebaVars, levelVars, orderVars, etaVars, restartVars, passVars, workerVars, seqVars, needVars, logicVars, lifeVars, cleanerVars>>
outsideUser == <<crawlVars, callVars, ctlVars, busVars, cacheVars, pageVars, tableVars, ruleVars, callsVars, tiebaVars, levelVars, orderVars, etaVars, restartVars, passVars, workerVars, seqVars, needVars, logicVars, lifeVars, cleanerVars>>
outsideCtl == <<crawlVars, callVars, userVars, busVars, cacheVars, pageVars, tableVars, ruleVars, callsVars, tiebaVars, levelVars, orderVars, etaVars, restartVars, passVars, workerVars, seqVars, needVars, logicVars, lifeVars, cleanerVars>>
outsideBus == <<crawlVars, callVars, userVars, ctlVars, cacheVars, pageVars, tableVars, ruleVars, callsVars, tiebaVars, levelVars, orderVars, etaVars, restartVars, passVars, workerVars, seqVars, needVars, logicVars, lifeVars, cleanerVars>>
outsideCache == <<crawlVars, callVars, userVars, ctlVars, busVars, pageVars, tableVars, ruleVars, callsVars, tiebaVars, levelVars, orderVars, etaVars, restartVars, passVars, workerVars, seqVars, needVars, logicVars, lifeVars, cleanerVars>>
outsidePage == <<crawlVars, callVars, userVars, ctlVars, busVars, cacheVars, tableVars, ruleVars, callsVars, tiebaVars, levelVars, orderVars, etaVars, restartVars, passVars, workerVars, seqVars, needVars, logicVars, lifeVars, cleanerVars>>
outsideTable == <<crawlVars, callVars, userVars, ctlVars, busVars, cacheVars, pageVars, ruleVars, callsVars, tiebaVars, levelVars, orderVars, etaVars, restartVars, passVars, workerVars, seqVars, needVars, logicVars, lifeVars, cleanerVars>>
outsideRule == <<crawlVars, callVars, userVars, ctlVars, busVars, cacheVars, pageVars, tableVars, callsVars, tiebaVars, levelVars, orderVars, etaVars, restartVars, passVars, workerVars, seqVars, needVars, logicVars, lifeVars, cleanerVars>>
\* The calls of the Controller act on its own state as well.
outsideCalls == <<crawlVars, callVars, userVars, busVars, cacheVars, pageVars, tableVars, ruleVars, tiebaVars, levelVars, orderVars, etaVars, restartVars, passVars, workerVars, seqVars, needVars, logicVars, lifeVars, cleanerVars>>
outsideTieba == <<crawlVars, callVars, userVars, ctlVars, busVars, cacheVars, pageVars, tableVars, ruleVars, callsVars, levelVars, orderVars, etaVars, restartVars, passVars, workerVars, seqVars, needVars, logicVars, lifeVars, cleanerVars>>
outsideLevel == <<crawlVars, callVars, userVars, ctlVars, busVars, cacheVars, pageVars, tableVars, ruleVars, callsVars, tiebaVars, orderVars, etaVars, restartVars, passVars, workerVars, seqVars, needVars, logicVars, lifeVars, cleanerVars>>
outsideOrder == <<crawlVars, callVars, userVars, ctlVars, busVars, cacheVars, pageVars, tableVars, ruleVars, callsVars, tiebaVars, levelVars, etaVars, restartVars, passVars, workerVars, seqVars, needVars, logicVars, lifeVars, cleanerVars>>
outsideEta == <<crawlVars, callVars, userVars, ctlVars, busVars, cacheVars, pageVars, tableVars, ruleVars, callsVars, tiebaVars, levelVars, orderVars, restartVars, passVars, workerVars, seqVars, needVars, logicVars, lifeVars, cleanerVars>>
outsideRestart == <<crawlVars, callVars, userVars, ctlVars, busVars, cacheVars, pageVars, tableVars, ruleVars, callsVars, tiebaVars, levelVars, orderVars, etaVars, passVars, workerVars, seqVars, needVars, logicVars, lifeVars, cleanerVars>>
outsidePass == <<crawlVars, callVars, userVars, ctlVars, busVars, cacheVars, pageVars, tableVars, ruleVars, callsVars, tiebaVars, levelVars, orderVars, etaVars, restartVars, workerVars, seqVars, needVars, logicVars, lifeVars, cleanerVars>>
outsideWorker == <<crawlVars, callVars, userVars, ctlVars, busVars, cacheVars, pageVars, tableVars, ruleVars, callsVars, tiebaVars, levelVars, orderVars, etaVars, restartVars, passVars, seqVars, needVars, logicVars, lifeVars, cleanerVars>>
outsideSeq == <<crawlVars, callVars, userVars, ctlVars, busVars, cacheVars, pageVars, tableVars, ruleVars, callsVars, tiebaVars, levelVars, orderVars, etaVars, restartVars, passVars, workerVars, needVars, logicVars, lifeVars, cleanerVars>>
outsideNeed == <<crawlVars, callVars, userVars, ctlVars, busVars, cacheVars, pageVars, tableVars, ruleVars, callsVars, tiebaVars, levelVars, orderVars, etaVars, restartVars, passVars, workerVars, seqVars, logicVars, lifeVars, cleanerVars>>
outsideLogic == <<crawlVars, callVars, userVars, ctlVars, busVars, cacheVars, pageVars, tableVars, ruleVars, callsVars, tiebaVars, levelVars, orderVars, etaVars, restartVars, passVars, workerVars, seqVars, needVars, lifeVars, cleanerVars>>
outsideLife == <<crawlVars, callVars, userVars, ctlVars, busVars, cacheVars, pageVars, tableVars, ruleVars, callsVars, tiebaVars, levelVars, orderVars, etaVars, restartVars, passVars, workerVars, seqVars, needVars, logicVars, cleanerVars>>
outsideCleaner == <<crawlVars, callVars, userVars, ctlVars, busVars, cacheVars, pageVars, tableVars, ruleVars, callsVars, tiebaVars, levelVars, orderVars, etaVars, restartVars, passVars, workerVars, seqVars, needVars, logicVars, lifeVars>>

----------------------------------------------------------------------------
\* Database.check_and_update_cache

\* The SELECT: the marker pair of the row, or the empty tuple for no row.
NoCache == <<>>
CacheRead(db, pid) ==
    IF pid \in DOMAIN db THEN <<db[pid].last_time, db[pid].reply_num>> ELSE NoCache

\* The UPDATE ... WHERE pid = :pid: writes the markers of an existing row
\* (last_update is refreshed by onupdate); no row is created.
CacheUpdate(db, item) ==
    IF item.pid \in DOMAIN db
    THEN [db EXCEPT ![item.pid] =
            [last_time |-> item.last_time, reply_num |-> item.reply_num, fresh |-> TRUE]]
    ELSE db

\* Mutants of the classification.
StatusPostThresholdOff(item, cache) ==
    IF item.kind = "thread"
    THEN IF cache = NoCache
         THEN (IF item.reply_num > 0 THEN NEW_WITH_CHILD ELSE ST_NEW)
         ELSE (IF <<item.last_time, item.reply_num>> # cache THEN UPDATED ELSE ST_UNCHANGED)
    ELSE IF item.kind = "post"
    THEN IF cache = NoCache
         THEN (IF item.reply_num >= PostChildThreshold THEN NEW_WITH_CHILD ELSE ST_NEW)
         ELSE (IF <<None, item.reply_num>> # cache THEN UPDATED ELSE ST_UNCHANGED)
    ELSE IF cache = NoCache THEN ST_NEW ELSE ST_UNCHANGED

StatusCommentAlwaysNew(item, cache) ==
    IF item.kind = "thread"
    THEN IF cache = NoCache
         THEN (IF item.reply_num > 0 THEN NEW_WITH_CHILD ELSE ST_NEW)
         ELSE (IF <<item.last_time, item.reply_num>> # cache THEN UPDATED ELSE ST_UNCHANGED)
    ELSE IF item.kind = "post"
    THEN IF cache = NoCache
         THEN (IF item.reply_num > PostChildThreshold THEN NEW_WITH_CHILD ELSE ST_NEW)
         ELSE (IF <<None, item.reply_num>> # cache THEN UPDATED ELSE ST_UNCHANGED)
    ELSE ST_NEW

\* The classification after the transaction.
Status(item, cache) ==
    IF item.kind = "thread"
    THEN IF cache = NoCache
         THEN (IF item.reply_num > 0 THEN NEW_WITH_CHILD ELSE ST_NEW)
         ELSE (IF <<item.last_time, item.reply_num>> # cache THEN UPDATED ELSE ST_UNCHANGED)
    ELSE IF item.kind = "post"
    THEN IF cache = NoCache
         THEN (IF item.reply_num > PostChildThreshold THEN NEW_WITH_CHILD ELSE ST_NEW)
         ELSE (IF <<None, item.reply_num>> # cache THEN UPDATED ELSE ST_UNCHANGED)
    ELSE IF cache = NoCache THEN ST_NEW ELSE ST_UNCHANGED

\* One call of check_and_update_cache(item): the table after the transaction
\* and the status returned.
check_and_update_cache(item) ==
    /\ content' = CacheUpdate(content, item)
    /\ updated' = Status(item, CacheRead(content, item.pid))
    /\ classified' = item.pid

----------------------------------------------------------------------------
\* Database.save_items([ContentModel.from_content(content)]), on_conflict = "ignore"
save_items(db, item) ==
    IF item.pid \in DOMAIN db
    THEN db
    ELSE [p \in DOMAIN db \cup {item.pid} |->
            IF p = item.pid
            THEN [last_time |-> item.last_time, reply_num |-> item.reply_num, fresh |-> TRUE]
            ELSE db[p]]

\* Database.clear_contents_before: rows whose last_update is older than the
\* threshold are deleted.
clear_contents_before(db) ==
    [p \in {q \in DOMAIN db : db[q].fresh} |-> db[p]]

----------------------------------------------------------------------------
\* Spider.crawl, one pass over the forum

\* Results of the upstream requests of a pass.
ThreadLists ==
    {<<>>} \cup {<<ThreadItem(lt, rn)>> : lt \in ThreadLastTimes, rn \in ThreadReplyNums}
PostLists ==
    {<<>>, <<PostItem(FirstFloorPid, 1, 0)>>}
    \cup {<<PostItem(FirstFloorPid, 1, 0), PostItem(PostPid, 2, rn)>> : rn \in PostReplyNums}
CommentLists == {<<>>, <<CommentItem>>}

\* The yield of an item: the generator hands it to Crawler.crawl.
Yield(item, wanted) ==
    pending' = IF Status(item, CacheRead(content, item.pid)) \in IS_NEW /\ wanted
               THEN item ELSE NoItem

\* Crawler.crawl starts a pass; the spider fetches the thread list pages.
FetchThreads ==
    /\ pc = "idle"
    /\ \E n \in Needs, ts \in ThreadLists :
          /\ need' = n
          /\ raw_threads' = ts
    /\ pc' = "thread"
    /\ UNCHANGED <<content, raw_posts, raw_comments, updated, classified, pending, saved,
                   dispatched>>
    /\ UNCHANGED <<callVars, outsideCrawl>>

\* for thread in raw_threads: classify, yield if new and wanted.
ClassifyThread ==
    /\ pc = "thread"
    /\ pending = NoItem
    /\ raw_threads # <<>>
    /\ check_and_update_cache(Head(raw_threads))
    /\ Yield(Head(raw_threads), need.thread)
    /\ pc' = "thread_after"
    /\ UNCHANGED <<need, raw_threads, raw_posts, raw_comments, saved, dispatched>>
    /\ UNCHANGED <<callVars, outsideCrawl>>

\* if updated & IS_STABLE or (not need.post and not need.comment): continue
SkipThread ==
    /\ pc = "thread_after"
    /\ pending = NoItem
    /\ (updated \in IS_STABLE \/ (~need.post /\ ~need.comment))
    /\ raw_threads' = Tail(raw_threads)
    /\ pc' = "thread"
    /\ UNCHANGED <<content, need, raw_posts, raw_comments, updated, classified, pending, saved,
                   dispatched>>
    /\ UNCHANGED <<callVars, outsideCrawl>>

\* A variant that skips the posts only for a stable thread of which neither
\* posts nor comments are wanted.
FetchPosts_unless_both ==
    /\ pc = "thread_after"
    /\ pending = NoItem
    /\ ~(updated \in IS_STABLE /\ (~need.post /\ ~need.comment))
    /\ \E ps \in PostLists, cs \in CommentLists :
          /\ raw_posts' = ps
          /\ raw_comments' = cs
    /\ pc' = "post"
    /\ UNCHANGED <<content, need, raw_threads, updated, classified, pending, saved,
                   dispatched>>
    /\ UNCHANGED <<callVars, outsideCrawl>>

\* A variant that fetches the posts of every changed thread, wanted or not.
FetchPosts_if_changed ==
    /\ pc = "thread_after"
    /\ pending = NoItem
    /\ ~(updated \in IS_STABLE)
    /\ \E ps \in PostLists, cs \in CommentLists :
          /\ raw_posts' = ps
          /\ raw_comments' = cs
    /\ pc' = "post"
    /\ UNCHANGED <<content, need, raw_threads, updated, classified, pending, saved,
                   dispatched>>
    /\ UNCHANGED <<callVars, outsideCrawl>>

\* Otherwise the post pages of the thread are fetched.
FetchPosts ==
    /\ pc = "thread_after"
    /\ pending = NoItem
    /\ ~(updated \in IS_STABLE \/ (~need.post /\ ~need.comment))
    /\ \E ps \in PostLists, cs \in CommentLists :
          /\ raw_posts' = ps
          /\ raw_comments' = cs
    /\ pc' = "post"
    /\ UNCHANGED <<content, need, raw_threads, updated, classified, pending, saved,
                   dispatched>>
    /\ UNCHANGED <<callVars, outsideCrawl>>

\* if post.floor == 1: continue
SkipFirstFloor ==
    /\ pc = "post"
    /\ pending = NoItem
    /\ raw_posts # <<>>
    /\ Head(raw_posts).floor = 1
    /\ raw_posts' = Tail(raw_posts)
    /\ UNCHANGED <<content, pc, need, raw_threads, raw_comments, updated, classified, pending, saved,
                   dispatched>>
    /\ UNCHANGED <<callVars, outsideCrawl>>

\* A variant that classifies the first floor with the other posts.
ClassifyPost_any_floor ==
    /\ pc = "post"
    /\ pending = NoItem
    /\ raw_posts # <<>>
    /\ check_and_update_cache(Head(raw_posts))
    /\ Yield(Head(raw_posts), need.post)
    /\ pc' = "post_after"
    /\ UNCHANGED <<need, raw_threads, raw_posts, raw_comments, saved, dispatched>>
    /\ UNCHANGED <<callVars, outsideCrawl>>

\* for post in raw_posts, past the first floor: classify, yield if new and
\* wanted.
ClassifyPost ==
    /\ pc = "post"
    /\ pending = NoItem
    /\ raw_posts # <<>>
    /\ Head(raw_posts).floor # 1
    /\ check_and_update_cache(Head(raw_posts))
    /\ Yield(Head(raw_posts), need.post)
    /\ pc' = "post_after"
    /\ UNCHANGED <<need, raw_threads, raw_posts, raw_comments, saved, dispatched>>
    /\ UNCHANGED <<callVars, outsideCrawl>>

\* if updated & IS_STABLE or not need.post: continue
SkipComments ==
    /\ pc = "post_after"
    /\ pending = NoItem
    /\ (updated \in IS_STABLE \/ ~need.post)
    /\ raw_posts' = Tail(raw_posts)
    /\ pc' = "post"
    /\ UNCHANGED <<content, need, raw_threads, raw_comments, updated, classified, pending, saved,
                   dispatched>>
    /\ UNCHANGED <<callVars, outsideCrawl>>

\* Otherwise the last comment page of the post is fetched; a failed request
\* is logged and adds nothing.
FetchComments ==
    /\ pc = "post_after"
    /\ pending = NoItem
    /\ ~(updated \in IS_STABLE \/ ~need.post)
    /\ \E cs \in CommentLists : raw_comments' = raw_comments \o cs
    /\ raw_posts' = Tail(raw_posts)
    /\ pc' = "post"
    /\ UNCHANGED <<content, need, raw_threads, updated, classified, pending, saved,
                   dispatched>>
    /\ UNCHANGED <<callVars, outsideCrawl>>

PostsDone ==
    /\ pc = "post"
    /\ pending = NoItem
    /\ raw_posts = <<>>
    /\ pc' = "comment"
    /\ UNCHANGED <<content, need, raw_threads, raw_posts, raw_comments, updated, classified, pending,
                   saved, dispatched>>
    /\ UNCHANGED <<callVars, outsideCrawl>>

ClassifyComment ==
    /\ pc = "comment"
    /\ pending = NoItem
    /\ raw_comments # <<>>
    /\ check_and_update_cache(Head(raw_comments))
    /\ Yield(Head(raw_comments), need.comment)
    /\ raw_comments' = Tail(raw_comments)
    /\ UNCHANGED <<pc, need, raw_threads, raw_posts, saved, dispatched>>
    /\ UNCHANGED <<callVars, outsideCrawl>>

CommentsDone ==
    /\ pc = "comment"
    /\ pending = NoItem
    /\ raw_comments = <<>>
    /\ raw_threads' = Tail(raw_threads)
    /\ pc' = "thread"
    /\ UNCHANGED <<content, need, raw_posts, raw_comments, updated, classified, pending, saved,
                   dispatched>>
    /\ UNCHANGED <<callVars, outsideCrawl>>

PassDone ==
    /\ pc = "thread"
    /\ pending = NoItem
    /\ raw_threads = <<>>
    /\ pc' = "idle"
    /\ UNCHANGED <<content, need, raw_threads, raw_posts, raw_comments, updated, classified, pending,
                   saved, dispatched>>
    /\ UNCHANGED <<callVars, outsideCrawl>>

----------------------------------------------------------------------------
\* Crawler.crawl, the body of "async for content in spider.crawl(...)"

\* await Database.save_items([ContentModel.from_content(content)])
CrawlerSave ==
    /\ pending # NoItem
    /\ ~saved
    /\ content' = save_items(content, pending)
    /\ saved' = TRUE
    /\ dispatched' = IF pending.pid \in DOMAIN content
                     THEN dispatched ELSE [dispatched EXCEPT ![pending.pid] = 0]
    /\ UNCHANGED <<pc, need, raw_threads, raw_posts, raw_comments, updated, classified, pending>>
    /\ UNCHANGED <<callVars, outsideCrawl>>

\* await Controller.DispatchContent.broadcast(content); the generator resumes.
CrawlerBroadcast ==
    /\ pending # NoItem
    /\ saved
    /\ dispatched[pending.pid] < MaxDispatched
    /\ dispatched' = [dispatched EXCEPT ![pending.pid] = @ + 1]
    /\ pending' = NoItem
    /\ saved' = FALSE
    /\ UNCHANGED <<content, pc, need, raw_threads, raw_posts, raw_comments, updated, classified>>
    /\ UNCHANGED <<callVars, outsideCrawl>>

\* An exception inside the pass (a storage error, a failed page request) is
\* logged by exception_logger and the pass is abandoned.
PassAborted ==
    /\ pc # "idle"
    /\ pc' = "idle"
    /\ raw_threads' = <<>>
    /\ raw_posts' = <<>>
    /\ raw_comments' = <<>>
    /\ pending' = NoItem
    /\ saved' = FALSE
    /\ UNCHANGED <<content, need, updated, classified, dispatched>>
    /\ UNCHANGED <<callVars, outsideCrawl>>

----------------------------------------------------------------------------
\* TTL sweeper of the content table

\* Time passes: every row becomes older than PID_CACHE_EXPIRE.
RowsAge ==
    /\ \E p \in DOMAIN content : content[p].fresh
    /\ content' = [p \in DOMAIN content |-> [content[p] EXCEPT !.fresh = FALSE]]
    /\ UNCHANGED <<pc, need, raw_threads, raw_posts, raw_comments, updated, classified, pending,
                   saved, dispatched>>
    /\ UNCHANGED outsideCrawl

\* clear_content_cache, the ClearCache listener.
clear_content_cache ==
    /\ \E p \in DOMAIN content : ~content[p].fresh
    /\ content' = clear_contents_before(content)
    /\ dispatched' = [p \in Pids |-> IF p \in DOMAIN content /\ ~content[p].fresh
                                     THEN 0 ELSE dispatched[p]]
    /\ UNCHANGED <<pc, need, raw_threads, raw_posts, raw_comments, updated, classified, pending,
                   saved>>
    /\ UNCHANGED outsideCrawl

CrawlRowsAge ==
    /\ RowsAge
    /\ UNCHANGED callVars

CrawlSweep ==
    /\ clear_content_cache
    /\ UNCHANGED callVars

InitCrawl ==
    /\ content = <<>>
    /\ pc = "idle"
    /\ need = [thread |-> TRUE, post |-> TRUE, comment |-> TRUE]
    /\ raw_threads = <<>>
    /\ raw_posts = <<>>
    /\ raw_comments = <<>>
    /\ updated = ST_UNCHANGED
    /\ classified = "none"
    /\ pending = NoItem
    /\ saved = FALSE
    /\ dispatched = [p \in Pids |-> 0]

\* C5: while the row of a pid stays in the content table, the crawler
\* broadcasts that pid on DispatchContent at most once, over any number of
\* passes and also when the item occurs several times within one pass.
DispatchedAtMostOnce ==
    \A p \in DOMAIN content : dispatched[p] <= 1

\* The comment was broadcast, its row is still in the table, and the spider
\* has classified it again without yielding it.
WitnessDispatchedAtMostOnce ==
    /\ CommentPid \in DOMAIN content
    /\ dispatched[CommentPid] = 1
    /\ classified = CommentPid
    /\ pc = "comment"
    /\ updated = ST_UNCHANGED
    /\ pending = NoItem
    /\ need.comment

\* C14: whatever the need and the content table, the spider never yields a
\* post whose floor is 1: the item handed to Crawler.crawl is never one, and
\* so the first-floor post is never saved or broadcast.
FirstFloorNeverYielded ==
    /\ pending.kind = "post" => pending.floor # 1
    /\ pending.pid # FirstFloorPid
    /\ FirstFloorPid \notin DOMAIN content
    /\ dispatched[FirstFloorPid] = 0

\* A pass that wants posts has fetched the first floor and the reply, both
\* without a row; the reply has been yielded and the first floor has not.
WitnessFirstFloorNeverYielded ==
    /\ need.post
    /\ pc = "post_after"
    /\ Len(raw_posts) = 1
    /\ pending = Head(raw_posts)
    /\ pending.pid = PostPid /\ pending.floor = 2
    /\ PostPid \notin DOMAIN content

\* C23 as stated: the spider leaves a thread without fetching its posts
\* exactly when the thread's status is in IS_STABLE and neither posts nor
\* comments are wanted, and fetches post page 1 in every other case.
PostsSkippedIffStableAndUnwanted ==
    [][(pc = "thread_after" /\ pc' \in {"thread", "post"}) =>
          IF updated \in IS_STABLE /\ (~need.post /\ ~need.comment)
          THEN pc' = "thread" /\ raw_threads' = Tail(raw_threads)
          ELSE pc' = "post"]_crawlVars

\* C23: the spider leaves a thread without fetching its posts exactly when
\* the thread's status is in IS_STABLE or neither posts nor comments are
\* wanted, and fetches post page 1 in every other case (a pass that is
\* abandoned at this point does neither).
PostsSkippedIffStableOrUnwanted ==
    [][(pc = "thread_after" /\ pc' \in {"thread", "post"}) =>
          IF updated \in IS_STABLE \/ (~need.post /\ ~need.comment)
          THEN pc' = "thread" /\ raw_threads' = Tail(raw_threads)
                /\ raw_posts' = raw_posts /\ raw_comments' = raw_comments
          ELSE pc' = "post"]_crawlVars

\* A changed thread of which only threads are wanted has been left without
\* its posts being fetched.
WitnessPostsSkippedIffStableOrUnwanted ==
    /\ pc = "thread"
    /\ classified = ThreadPid
    /\ updated \in HAS_CHANGES
    /\ ~need.post /\ ~need.comment
    /\ raw_threads = <<>>
    /\ raw_posts = <<>>

\* need = {thread: true, post: false, comment: false}
ThreadOnly == need.thread /\ ~need.post /\ ~need.comment

\* C24: in a pass whose need is threads only, the spider yields a thread
\* exactly when its status is in IS_NEW, yields nothing else, and requests no
\* post page and no comment page, whatever the thread's reply_num.
ThreadOnlyPass ==
    /\ [](ThreadOnly =>
             /\ pc \in {"idle", "thread", "thread_after"}
             /\ pending.kind \in {"none", "thread"}
             /\ raw_posts = <<>> /\ raw_comments = <<>>)
    /\ [][(ThreadOnly /\ pc = "thread" /\ pc' = "thread_after") =>
             pending' = IF updated' \in IS_NEW THEN Head(raw_threads) ELSE NoItem]_crawlVars

\* A first-sighted thread with replies was yielded and broadcast, and the
\* spider has left it without fetching its posts.
WitnessThreadOnlyPass ==
    /\ ThreadOnly
    /\ pc = "thread"
    /\ classified = ThreadPid
    /\ updated = NEW_WITH_CHILD
    /\ dispatched[ThreadPid] = 1
    /\ raw_threads = <<>>

NextCrawl ==
    \/ FetchThreads
    \/ ClassifyThread
    \/ SkipThread
    \/ FetchPosts
    \/ SkipFirstFloor
    \/ ClassifyPost
    \/ SkipComments
    \/ FetchComments
    \/ PostsDone
    \/ ClassifyComment
    \/ CommentsDone
    \/ PassDone
    \/ CrawlerSave
    \/ CrawlerBroadcast
    \/ PassAborted
    \/ CrawlRowsAge
    \/ CrawlSweep

----------------------------------------------------------------------------
\* The classifier called directly, as test_is_updated_post_and_comment does:
\* any item, any number of times, the crawler's save after a new item, and
\* the sweeper.

NoCall == [item |-> NoItem, cache |-> NoCache, status |-> "none"]
NoPair == [first |-> NoCall, second |-> NoCall]

Items ==
    {ThreadItem(lt, rn) : lt \in ThreadLastTimes, rn \in ThreadReplyNums}
    \cup {PostItem(PostPid, 2, rn) : rn \in PostReplyNums}
    \cup {CommentItem}

\* await Database.check_and_update_cache(item)
ClassifierCall ==
    \E item \in Items :
        LET call == [item |-> item,
                     cache |-> CacheRead(content, item.pid),
                     status |-> Status(item, CacheRead(content, item.pid))]
        IN  /\ check_and_update_cache(item)
            /\ lastCall' = call
            /\ pair' = IF lastCall # NoCall /\ lastCall.item.pid = item.pid
                       THEN [first |-> lastCall, second |-> call]
                       ELSE pair
            /\ UNCHANGED <<pc, need, raw_threads, raw_posts, raw_comments, pending,
                           saved, dispatched>>
            /\ UNCHANGED outsideCrawl

\* await Database.save_items([ContentModel.from_content(item)]) of an item
\* the classifier has just reported new (the crawler's write).
ClassifierSave ==
    /\ lastCall # NoCall
    /\ lastCall.status \in IS_NEW
    /\ content' = save_items(content, lastCall.item)
    /\ lastCall' = NoCall
    /\ UNCHANGED <<pc, need, raw_threads, raw_posts, raw_comments, updated, classified,
                   pending, saved, dispatched, pair>>
    /\ UNCHANGED outsideCrawl

ClassifierRowsAge ==
    /\ RowsAge
    /\ UNCHANGED callVars

ClassifierSweep ==
    /\ clear_content_cache
    /\ lastCall' = NoCall
    /\ UNCHANGED pair

NextClassifier ==
    \/ ClassifierCall
    \/ ClassifierSave
    \/ ClassifierRowsAge
    \/ ClassifierSweep

\* C1: for an item whose pid has no row, two calls of the classifier in
\* succession with no other write in between return a status in IS_NEW and
\* then UNCHANGED (UPDATED only if the markers changed between the calls).
TwiceInSuccession ==
    (pair # NoPair /\ pair.first.cache = NoCache) =>
        /\ pair.first.status \in IS_NEW
        /\ pair.second.status \in {ST_UNCHANGED, UPDATED}
        /\ (pair.second.status = UPDATED =>
               <<pair.first.item.last_time, pair.first.item.reply_num>>
                   # <<pair.second.item.last_time, pair.second.item.reply_num>>)

\* C2: the status returned is the one of the classification table, for every
\* item variant and every cache state.
ClassificationTable ==
    lastCall # NoCall =>
        LET i  == lastCall.item
            c  == lastCall.cache
            st == lastCall.status
        IN  /\ (i.kind = "thread" /\ c = NoCache) =>
                   st = (IF i.reply_num > 0 THEN NEW_WITH_CHILD ELSE ST_NEW)
            /\ (i.kind = "thread" /\ c # NoCache) =>
                   st = (IF i.last_time # c[1] \/ i.reply_num # c[2]
                         THEN UPDATED ELSE ST_UNCHANGED)
            /\ (i.kind = "post" /\ c = NoCache) =>
                   /\ st = (IF i.reply_num > 4 THEN NEW_WITH_CHILD ELSE ST_NEW)
                   /\ (i.reply_num \in 0..4 => st = ST_NEW)
            /\ (i.kind = "post" /\ c # NoCache) =>
                   st = (IF i.reply_num # c[2] THEN UPDATED ELSE ST_UNCHANGED)
            /\ (i.kind = "comment" /\ c = NoCache) => st = ST_NEW
            /\ (i.kind = "comment" /\ c # NoCache) => st = ST_UNCHANGED

\* A Post with four sub-replies was classified on first sighting, saved, and
\* classified again with five.
WitnessClassificationTable ==
    /\ lastCall # NoCall
    /\ lastCall.item.kind = "post"
    /\ lastCall.item.reply_num = 5
    /\ lastCall.cache = <<None, 4>>
    /\ lastCall.status = UPDATED

(***************************************************************************)
(* Part 2.  Rule processing and confirmation                               *)
(*          src/src/rule/operation.py, src/src/process/process.py,         *)
(*          src/src/user/user.py, src/src/api/routes/user.py               *)
(***************************************************************************)
UserPids == {ThreadPid, PostPid}
OwnForum == "bar"

\* An operation and an OperationGroup: the group is one of the four string
\* operations or a list of operations.
Op(type, direct) == [type |-> type, direct |-> direct]
StrGroup(name) == [str |-> TRUE, name |-> name, list |-> <<>>]
ListGroup(list) == [str |-> FALSE, name |-> "", list |-> list]
NoGroup == [str |-> FALSE, name |-> "None", list |-> <<>>]

IsDirect(op) == op.direct
IsNotDirect(op) == ~op.direct

direct_operations(og) ==
    IF og.str
    THEN NoGroup
    ELSE LET operations == SelectSeq(og.list, IsDirect)
         IN  IF operations = <<>> THEN NoGroup ELSE ListGroup(operations)

no_direct_operations(og) ==
    IF og.str
    THEN StrGroup(og.name)
    ELSE ListGroup(SelectSeq(og.list, IsNotDirect))

need_bawu(og) ==
    IF og.str
    THEN og.name \in {"delete", "delete_and_block", "block"}
    ELSE \E i \in DOMAIN og.list : og.list[i].type \in {"delete", "block"}

\* OperationTemplate.serialize writes the "direct" key only when it is set;
\* validation on the way back fills in the default.
serialize_operation(op) ==
    IF op.direct
    THEN [type |-> op.type, direct |-> TRUE]
    ELSE [type |-> op.type]

deserialize_operation(data) ==
    [type |-> data.type,
     direct |-> IF "direct" \in DOMAIN data THEN data.direct ELSE FALSE]

serialize(og) ==
    [og EXCEPT !.list = [i \in DOMAIN og.list |-> serialize_operation(og.list[i])]]

deserialize(data) ==
    [data EXCEPT !.list = [i \in DOMAIN data.list |-> deserialize_operation(data.list[i])]]

\* User.operate: the client operations it runs for a group, in order.  The
\* client methods report a failure by returning False, which operate ignores.
operate(og) ==
    IF og.str
    THEN CASE og.name = "ignore" -> <<>>
           [] og.name = "delete" -> <<Op("delete", FALSE)>>
           [] og.name = "block" -> <<Op("block", FALSE)>>
           [] og.name = "delete_and_block" -> <<Op("delete", FALSE), Op("block", FALSE)>>
    ELSE og.list

\* Rules, in the order of the configuration.  rule.check(obj) is an input of
\* a run: match[name] says whether the rule matched the content.
Rule(name, whitelist, valid, manual_confirm, operations) ==
    [name |-> name, whitelist |-> whitelist, valid |-> valid,
     manual_confirm |-> manual_confirm, operations |-> operations]

NoRule == Rule("None", FALSE, FALSE, FALSE, NoGroup)

MixedOps == ListGroup(<<Op("block", TRUE), Op("delete", FALSE), Op("block", FALSE)>>)
DirectOps == ListGroup(<<Op("block", TRUE)>>)

\* The first rule asks for a confirmation or not, over a mixed list or a list
\* of direct operations only; B1 and W1 are valid or both invalid.
FirstRules == {<<TRUE, MixedOps>>, <<FALSE, MixedOps>>, <<TRUE, DirectOps>>}

RuleLists ==
    { << Rule("B1", FALSE, valid, first[1], first[2]),
         Rule("W1", TRUE, valid, FALSE, StrGroup("ignore")),
         Rule("B2", FALSE, TRUE, FALSE, StrGroup("delete_and_block")),
         Rule("W2", TRUE, TRUE, FALSE, StrGroup("ignore")) >> :
      valid \in BOOLEAN, first \in FirstRules }

RuleNames == {"B1", "W1", "B2", "W2"}
Matches == [RuleNames -> BOOLEAN]

\* enable and forum.thread: at most one of them is switched off.
Switches == {<<TRUE, TRUE>>, <<FALSE, TRUE>>, <<TRUE, FALSE>>}

Configs ==
    { [enable |-> switch[1],
       forum |-> [fname |-> OwnForum, thread |-> switch[2], post |-> TRUE],
       mandatory_confirm |-> mandatory_confirm, fast_process |-> fast_process,
       rules |-> rule_list] :
      switch \in Switches, mandatory_confirm \in BOOLEAN, fast_process \in BOOLEAN,
      rule_list \in RuleLists }

IsValidWhitelist(rule) == rule.valid /\ rule.whitelist
IsValidBlacklist(rule) == rule.valid /\ ~rule.whitelist

\* Processer.__init__
whitelist_rules(cfg) == SelectSeq(cfg.rules, IsValidWhitelist)
rules(cfg) == SelectSeq(cfg.rules, IsValidBlacklist)

\* Processer.process, the loop over whitelist_rules: the rules it evaluates
\* and the rule on which it stops.
RECURSIVE whitelist_loop(_, _, _, _)
whitelist_loop(wl, i, match, evaluated) ==
    IF i > Len(wl)
    THEN [result_rule |-> NoRule, evaluated |-> evaluated]
    ELSE IF match[wl[i].name]
         THEN [result_rule |-> wl[i], evaluated |-> Append(evaluated, wl[i].name)]
         ELSE whitelist_loop(wl, i + 1, match, Append(evaluated, wl[i].name))

\* A variant that returns on the first blacklist match only under fast_process
\* and otherwise keeps the latest match.
RECURSIVE blacklist_loop_keeps_last(_, _, _, _, _, _)
blacklist_loop_keeps_last(bl, i, match, fast_process, valid_rule, evaluated) ==
    IF i > Len(bl)
    THEN [result_rule |-> valid_rule, evaluated |-> evaluated]
    ELSE IF match[bl[i].name]
         THEN IF fast_process
              THEN [result_rule |-> bl[i], evaluated |-> Append(evaluated, bl[i].name)]
              ELSE blacklist_loop_keeps_last(bl, i + 1, match, fast_process, bl[i],
                                             Append(evaluated, bl[i].name))
         ELSE blacklist_loop_keeps_last(bl, i + 1, match, fast_process, valid_rule,
                                        Append(evaluated, bl[i].name))

\* Processer.process, the loop over rules.
RECURSIVE blacklist_loop(_, _, _, _, _, _)
blacklist_loop(bl, i, match, fast_process, valid_rule, evaluated) ==
    IF i > Len(bl)
    THEN [result_rule |-> valid_rule, evaluated |-> evaluated]
    ELSE IF match[bl[i].name]
         THEN IF fast_process
              THEN [result_rule |-> bl[i], evaluated |-> Append(evaluated, bl[i].name)]
              ELSE blacklist_loop(bl, i + 1, match, fast_process,
                                  IF valid_rule = NoRule THEN bl[i] ELSE valid_rule,
                                  Append(evaluated, bl[i].name))
         ELSE blacklist_loop(bl, i + 1, match, fast_process, valid_rule,
                             Append(evaluated, bl[i].name))

\* Processer.resolve: the ProcessLog row saved for (pid, user).
NoLog == [result_rule |-> "None", is_whitelist |-> "no row"]
resolve(result_rule) ==
    [result_rule |-> result_rule.name,
     is_whitelist |-> IF result_rule = NoRule THEN "None"
                      ELSE IF result_rule.whitelist THEN "True" ELSE "False"]

\* A variant that goes on to the blacklist rules after a whitelist match.
process_past_whitelist(cfg, item, match) ==
    LET bl == blacklist_loop(rules(cfg), 1, match, cfg.fast_process, NoRule, <<>>)
    IN  [returned |-> bl.result_rule, log |-> resolve(bl.result_rule),
         evaluated |-> bl.evaluated]

\* A variant that processes the content of a disabled user.
process_while_disabled(cfg, item, match) ==
    IF \/ item.fname # cfg.forum.fname
       \/ ~cfg.forum[item.type]
    THEN [returned |-> NoRule, log |-> NoLog, evaluated |-> <<>>]
    ELSE LET wl == whitelist_loop(whitelist_rules(cfg), 1, match, <<>>)
         IN  IF wl.result_rule # NoRule
             THEN [returned |-> NoRule, log |-> resolve(wl.result_rule),
                   evaluated |-> wl.evaluated]
             ELSE LET bl == blacklist_loop(rules(cfg), 1, match, cfg.fast_process,
                                           NoRule, wl.evaluated)
                  IN  [returned |-> bl.result_rule, log |-> resolve(bl.result_rule),
                       evaluated |-> bl.evaluated]

\* Processer.process
process(cfg, item, match) ==
    IF \/ item.fname # cfg.forum.fname
       \/ ~cfg.forum[item.type]
       \/ ~cfg.enable
    THEN [returned |-> NoRule, log |-> NoLog, evaluated |-> <<>>]
    ELSE LET wl == whitelist_loop(whitelist_rules(cfg), 1, match, <<>>)
         IN  IF wl.result_rule # NoRule
             THEN [returned |-> NoRule, log |-> resolve(wl.result_rule),
                   evaluated |-> wl.evaluated]
             ELSE LET bl == blacklist_loop(rules(cfg), 1, match, cfg.fast_process,
                                           NoRule, wl.evaluated)
                  IN  [returned |-> bl.result_rule, log |-> resolve(bl.result_rule),
                       evaluated |-> bl.evaluated]

\* ConfirmData, and the empty slot of the confirmation store.
ConfirmData(pid, operations, rule_set_name) ==
    [content_pid |-> pid, operations |-> operations, rule_set_name |-> rule_set_name]
NoConfirm == ConfirmData("none", NoGroup, "None")

\* A variant that runs the whole group even when a confirmation is required.
operate_rule_set_runs_all(cfg, store, item, rule_set) ==
    [executed |-> operate(rule_set.operations),
     store |-> IF cfg.mandatory_confirm \/ rule_set.manual_confirm
               THEN [store EXCEPT ![item.pid] =
                        ConfirmData(item.pid,
                                    serialize(no_direct_operations(rule_set.operations)),
                                    rule_set.name)]
               ELSE store,
     stored |-> cfg.mandatory_confirm \/ rule_set.manual_confirm]

\* User.operate_rule_set: the operations it runs at once and the store it
\* leaves.
operate_rule_set(cfg, store, item, rule_set) ==
    IF cfg.mandatory_confirm \/ rule_set.manual_confirm
    THEN LET og == direct_operations(rule_set.operations)
         IN  [executed |-> IF og # NoGroup THEN operate(og) ELSE <<>>,
              store |-> [store EXCEPT ![item.pid] =
                            ConfirmData(item.pid,
                                        serialize(no_direct_operations(rule_set.operations)),
                                        rule_set.name)],
              stored |-> TRUE]
    ELSE [executed |-> operate(rule_set.operations), store |-> store, stored |-> FALSE]

NoProc ==
    [pid |-> "none", fname |-> "none", match |-> [n \in RuleNames |-> FALSE],
     returned |-> "None", log |-> NoLog, evaluated |-> <<>>, executed |-> <<>>,
     stored |-> FALSE, before |-> NoConfirm, entry |-> NoConfirm]

UserItem(pid, fname) ==
    [pid |-> pid, fname |-> fname,
     type |-> IF pid = ThreadPid THEN "thread" ELSE "post"]

\* User.process, a listener of DispatchContent.
User_process(item, match) ==
    \E result \in {process(config, item, match)} :
    \E done \in {IF result.returned # NoRule
                  THEN operate_rule_set(config, confirm, item, result.returned)
                  ELSE [executed |-> <<>>, store |-> confirm, stored |-> FALSE]} :
        /\ proc' = [pid |-> item.pid, fname |-> item.fname, match |-> match,
                    returned |-> result.returned.name, log |-> result.log,
                    evaluated |-> result.evaluated, executed |-> done.executed,
                    stored |-> done.stored, before |-> confirm[item.pid],
                    entry |-> done.store[item.pid]]
        /\ confirm' = done.store
        /\ opsrun' = [opsrun EXCEPT ![item.pid] = done.executed]
        /\ runs' = IF done.stored THEN [runs EXCEPT ![item.pid] = 0] ELSE runs
        /\ settled' = IF done.stored THEN [settled EXCEPT ![item.pid] = FALSE] ELSE settled
        /\ reqs' = [i \in DOMAIN reqs |->
                       IF /\ done.stored
                          /\ reqs[i].pc \in {"act", "delete"}
                          /\ Head(reqs[i].held).content_pid = item.pid
                       THEN [reqs[i] EXCEPT !.stale = TRUE]
                       ELSE reqs[i]]
        /\ UNCHANGED <<config, client_status>>
        /\ UNCHANGED outsideUser

\* Content of the user's forum, and a post of another forum.
UserItems ==
    {UserItem(pid, OwnForum) : pid \in UserPids} \cup {UserItem(PostPid, "other")}

UserProcess ==
    \E item \in UserItems, match \in Matches :
        User_process(item, match)

\* The entry of a pid runs out (ExpireCache).
ConfirmExpire ==
    /\ \E pid \in UserPids :
        /\ confirm[pid] # NoConfirm
        /\ confirm' = [confirm EXCEPT ![pid] = NoConfirm]
    /\ UNCHANGED <<config, client_status, proc, opsrun, runs, settled, reqs>>
    /\ UNCHANGED outsideUser

\* User.operate_confirm called with a pid, from the call to its return.
operate_confirm(pid, action) ==
    LET entry == confirm[pid]
        og == deserialize(entry.operations)
    IN  /\ entry # NoConfirm
        /\ \/ /\ action = "ignore"
              /\ confirm' = [confirm EXCEPT ![entry.content_pid] = NoConfirm]
              /\ UNCHANGED <<opsrun, runs, settled>>
           \/ /\ action = "execute"
              /\ ~(need_bawu(og) /\ client_status # "SUCCESS")
              /\ opsrun' = [opsrun EXCEPT ![pid] = @ \o operate(og)]
              /\ runs' = [runs EXCEPT ![pid] = @ + 1]
              /\ confirm' = [confirm EXCEPT ![entry.content_pid] = NoConfirm]
              /\ settled' = [settled EXCEPT ![pid] = TRUE]
        /\ UNCHANGED <<config, client_status, proc, reqs>>
        /\ UNCHANGED outsideUser

ConfirmByPid ==
    \E pid \in UserPids, action \in {"execute", "ignore"} :
        operate_confirm(pid, action)

NextProcess ==
    \/ UserProcess
    \/ ConfirmByPid
    \/ ConfirmExpire

(***************************************************************************)
(* Properties of a run of User.process, read off the record of the run.    *)
(***************************************************************************)
\* The content of the run is one the user processes at all.
InScope ==
    /\ proc.pid \in UserPids
    /\ proc.fname = config.forum.fname
    /\ config.forum[UserItem(proc.pid, proc.fname).type]
    /\ config.enable

Matching(whitelist) ==
    {i \in DOMAIN config.rules :
        /\ config.rules[i].valid
        /\ config.rules[i].whitelist = whitelist
        /\ proc.match[config.rules[i].name]}

\* The first rule of the configured order among the given positions.
First(positions) ==
    config.rules[CHOOSE i \in positions : \A j \in positions : i <= j]

NamesOf(whitelist) ==
    {config.rules[i].name : i \in {j \in DOMAIN config.rules :
                                      config.rules[j].whitelist = whitelist}}

\* C31: content of another forum, content of a layer the user has switched
\* off and any content while the user is disabled is rejected before any
\* rule: the run returns no rule, evaluates none, saves no ProcessLog, runs
\* no operation and leaves the confirmation store as it was.
RejectedUntouched ==
    (proc # NoProc /\ ~InScope) =>
        /\ proc.returned = "None"
        /\ proc.evaluated = <<>>
        /\ proc.log = NoLog
        /\ proc.executed = <<>>
        /\ ~proc.stored
        /\ proc.entry = proc.before

\* A disabled user was handed content of its own forum that matches a valid
\* blacklist rule, and did nothing.
WitnessRejectedUntouched ==
    /\ proc.pid \in UserPids
    /\ proc.fname = config.forum.fname
    /\ ~config.enable
    /\ proc.match["B2"]
    /\ \A name \in {"W1", "W2"} : ~proc.match[name]
    /\ proc.returned = "None"
    /\ proc.executed = <<>>

\* C7: when a valid whitelist rule matches, the run returns no rule,
\* evaluates no blacklist rule, runs and stores no operation, and the
\* ProcessLog row names the matching whitelist rule with is_whitelist true.
WhitelistWins ==
    (InScope /\ Matching(TRUE) # {}) =>
        /\ proc.returned = "None"
        /\ \A k \in DOMAIN proc.evaluated : proc.evaluated[k] \notin NamesOf(FALSE)
        /\ proc.executed = <<>>
        /\ ~proc.stored
        /\ proc.entry = proc.before
        /\ proc.log = [result_rule |-> First(Matching(TRUE)).name, is_whitelist |-> "True"]

WitnessWhitelistWins ==
    /\ InScope
    /\ proc.match["W2"] /\ proc.match["B1"] /\ proc.match["B2"]
    /\ ~proc.match["W1"]
    /\ config.rules[1].valid
    /\ proc.log.result_rule = "W2"
    /\ proc.evaluated = <<"W1", "W2">>

\* C8: with no whitelist match and some blacklist match, the run returns and
\* records the first matching blacklist rule of the configured order, under
\* either value of fast_process; under fast_process no later rule is
\* evaluated.
FirstBlacklistMatch ==
    (InScope /\ Matching(TRUE) = {} /\ Matching(FALSE) # {}) =>
        /\ proc.returned = First(Matching(FALSE)).name
        /\ proc.log = [result_rule |-> First(Matching(FALSE)).name, is_whitelist |-> "False"]
        /\ config.fast_process =>
              /\ proc.evaluated # <<>>
              /\ proc.evaluated[Len(proc.evaluated)] = First(Matching(FALSE)).name

WitnessFirstBlacklistMatch ==
    /\ InScope
    /\ ~config.fast_process
    /\ Matching(TRUE) = {}
    /\ proc.match["B1"] /\ proc.match["B2"]
    /\ ~config.rules[1].valid
    /\ proc.returned = "B2"
    /\ proc.evaluated = <<"W2", "B2">>

WitnessFastBlacklistMatch ==
    /\ InScope
    /\ config.fast_process
    /\ Matching(TRUE) = {}
    /\ proc.match["B1"] /\ proc.match["B2"]
    /\ config.rules[1].valid
    /\ proc.returned = "B1"
    /\ proc.evaluated = <<"W1", "W2", "B1">>

\* The rule that the run returned, and the parts of its operation group.
Returned ==
    CHOOSE r \in {config.rules[i] : i \in DOMAIN config.rules} : r.name = proc.returned

TypesOf(list) == [i \in DOMAIN list |-> list[i].type]

FlaggedDirect(og) == IF og.str THEN <<>> ELSE SelectSeq(og.list, IsDirect)

NotFlaggedDirect(og) == IF og.str THEN <<>> ELSE SelectSeq(og.list, IsNotDirect)

WholeGroup(og) ==
    IF og.str
    THEN CASE og.name = "ignore" -> <<>>
           [] og.name = "delete" -> <<Op("delete", FALSE)>>
           [] og.name = "block" -> <<Op("block", FALSE)>>
           [] og.name = "delete_and_block" -> <<Op("delete", FALSE), Op("block", FALSE)>>
    ELSE og.list

\* C9: under mandatory_confirm or the rule's manual_confirm, operate_rule_set
\* runs exactly the operations flagged direct, no other operation runs for the
\* pid before an operate_confirm execute, and the entry stored under the
\* content's pid holds exactly the operations not flagged direct, in order;
\* otherwise the whole group runs at once and nothing is stored.
ConfirmSplit ==
    (proc.returned # "None") =>
        IF config.mandatory_confirm \/ Returned.manual_confirm
        THEN /\ proc.executed = FlaggedDirect(Returned.operations)
             /\ runs[proc.pid] = 0 => opsrun[proc.pid] = FlaggedDirect(Returned.operations)
             /\ proc.stored
             /\ proc.entry.content_pid = proc.pid
             /\ proc.entry.rule_set_name = Returned.name
             /\ proc.entry.operations.str = Returned.operations.str
             /\ proc.entry.operations.name = Returned.operations.name
             /\ TypesOf(proc.entry.operations.list)
                    = TypesOf(NotFlaggedDirect(Returned.operations))
             /\ \A q \in UserPids : confirm[q] # NoConfirm => confirm[q].content_pid = q
        ELSE /\ proc.executed = WholeGroup(Returned.operations)
             /\ ~proc.stored
             /\ proc.entry = proc.before

WitnessConfirmSplit ==
    /\ proc.returned = "B1"
    /\ proc.pid = PostPid
    /\ ~config.mandatory_confirm
    /\ Returned.manual_confirm
    /\ Returned.operations = MixedOps
    /\ proc.executed = <<Op("block", TRUE)>>
    /\ confirm[PostPid] = proc.entry
    /\ confirm[ThreadPid] = NoConfirm
    /\ TypesOf(proc.entry.operations.list) = <<"delete", "block">>
    /\ runs[PostPid] = 0

WitnessImmediate ==
    /\ proc.returned = "B1"
    /\ ~config.mandatory_confirm
    /\ ~Returned.manual_confirm
    /\ Len(proc.executed) = Len(MixedOps.list)
    /\ ~proc.stored
    /\ confirm[proc.pid] = NoConfirm

WitnessConfirmThenExecute ==
    /\ proc.returned = "B1"
    /\ Returned.operations = MixedOps
    /\ proc.stored
    /\ runs[proc.pid] = 1
    /\ Len(opsrun[proc.pid]) = Len(MixedOps.list)
    /\ confirm[proc.pid] = NoConfirm

\* C38: when a confirmation is required, an entry is stored only if the
\* matched rule has at least one operation that is not direct; a rule whose
\* listed operations are all direct leaves the confirmation store as it was.
ConfirmOnlyNonDirect ==
    (/\ proc.returned # "None"
     /\ config.mandatory_confirm \/ Returned.manual_confirm
     /\ ~Returned.operations.str
     /\ NotFlaggedDirect(Returned.operations) = <<>>) =>
        /\ ~proc.stored
        /\ proc.entry = proc.before

\* An entry stored for a list of operations holds the operations of the
\* list that are not direct, which may be none.
StoredHoldsNonDirect ==
    (proc.returned # "None" /\ proc.stored /\ ~Returned.operations.str) =>
        TypesOf(proc.entry.operations.list) = TypesOf(NotFlaggedDirect(Returned.operations))

\* The rule has the one operation block, direct, and asks for a
\* confirmation: the block ran and an entry without operations is stored.
WitnessEmptyConfirm ==
    /\ proc.returned = "B1"
    /\ Returned.manual_confirm
    /\ Returned.operations = DirectOps
    /\ proc.executed = <<Op("block", TRUE)>>
    /\ proc.stored
    /\ proc.before = NoConfirm
    /\ proc.entry.content_pid = proc.pid
    /\ proc.entry.operations.list = <<>>
    /\ confirm[proc.pid] = proc.entry

(***************************************************************************)
(* Confirmation requests, await by await.  A request reads the store, runs *)
(* the operation group and deletes the entry in three steps, between which *)
(* other requests and the processing of content take their turns.          *)
(***************************************************************************)
MaxRequests == 2
MaxRuns == 2

Slots == 1..MaxRequests

NoReq ==
    [kind |-> "none", action |-> "none", held |-> <<>>, pc |-> "idle",
     result |-> "none", ran |-> 0, succeeded |-> TRUE, late |-> FALSE,
     stale |-> FALSE]

Free(i) == reqs[i].pc \in {"idle", "done"}

IsEntry(entry) == entry # NoConfirm

\* A call that found no entry has returned; one that found an entry holds it.
Began(kind, action, held, missing, late) ==
    [kind |-> kind, action |-> action, held |-> held,
     pc |-> IF held = <<>> THEN "done" ELSE "act",
     result |-> IF held = <<>> THEN missing ELSE "none",
     ran |-> 0, succeeded |-> TRUE, late |-> late, stale |-> FALSE]

\* operate_confirm(pid, action): the lookup by pid.
operate_confirm_get(i, pid, action) ==
    /\ Free(i)
    /\ reqs' = [reqs EXCEPT ![i] =
                   Began("pid", action, SelectSeq(<<confirm[pid]>>, IsEntry), "False",
                         settled[pid])]
    /\ UNCHANGED <<config, client_status, confirm, proc, opsrun, runs, settled>>
    /\ UNCHANGED outsideUser

\* POST /api/confirm/confirm with one pid: the lookup of the route.
confirm_operation(i, pid, action) ==
    /\ Free(i)
    /\ reqs' = [reqs EXCEPT ![i] =
                   Began("single", action, SelectSeq(<<confirm[pid]>>, IsEntry), "400",
                         settled[pid])]
    /\ UNCHANGED <<config, client_status, confirm, proc, opsrun, runs, settled>>
    /\ UNCHANGED outsideUser

\* confirm_many, the background task of a batch: the lookups of its pids.
confirm_many(i, pids, action) ==
    /\ Free(i)
    /\ reqs' = [reqs EXCEPT ![i] =
                   Began("many", action,
                         SelectSeq([k \in DOMAIN pids |-> confirm[pids[k]]], IsEntry),
                         "none", FALSE)]
    /\ UNCHANGED <<config, client_status, confirm, proc, opsrun, runs, settled>>
    /\ UNCHANGED outsideUser

\* The request after one call of operate_confirm has returned: a batch goes
\* on to the next entry it holds.
Returns(req, result) ==
    IF req.kind = "many" /\ Len(req.held) > 1
    THEN [req EXCEPT !.held = Tail(@), !.pc = "act"]
    ELSE [req EXCEPT !.held = <<>>, !.pc = "done", !.result = result]

\* A variant that drops the entry of an execute it refuses.
operate_confirm_act_drops_refused(i) ==
    LET req == reqs[i]
        entry == Head(req.held)
        og == deserialize(entry.operations)
    IN  /\ req.pc = "act"
        /\ \/ /\ req.action = "ignore"
              /\ confirm' = [confirm EXCEPT ![entry.content_pid] = NoConfirm]
              /\ reqs' = [reqs EXCEPT ![i] = Returns(req, "True")]
              /\ UNCHANGED <<opsrun, runs>>
           \/ /\ req.action = "execute"
              /\ need_bawu(og) /\ client_status # "SUCCESS"
              /\ reqs' = [reqs EXCEPT ![i] =
                             [req EXCEPT !.held = <<>>, !.pc = "done",
                                         !.result = "ValueError"]]
              /\ confirm' = [confirm EXCEPT ![entry.content_pid] = NoConfirm]
              /\ UNCHANGED <<opsrun, runs>>
           \/ /\ req.action \notin {"ignore", "execute"}
              /\ reqs' = [reqs EXCEPT ![i] =
                             [req EXCEPT !.held = <<>>, !.pc = "done",
                                         !.result = "ValueError"]]
              /\ UNCHANGED <<confirm, opsrun, runs>>
           \/ /\ req.action = "execute"
              /\ ~(need_bawu(og) /\ client_status # "SUCCESS")
              /\ runs[entry.content_pid] < MaxRuns
              /\ \E succeeded \in BOOLEAN :
                    reqs' = [reqs EXCEPT ![i] =
                                [req EXCEPT !.pc = "delete",
                                            !.ran = @ + Len(operate(og)),
                                            !.succeeded = succeeded]]
              /\ opsrun' = [opsrun EXCEPT ![entry.content_pid] = @ \o operate(og)]
              /\ runs' = IF req.stale THEN runs
                         ELSE [runs EXCEPT ![entry.content_pid] = @ + 1]
              /\ UNCHANGED confirm
        /\ UNCHANGED <<config, client_status, proc, settled>>
        /\ UNCHANGED outsideUser

\* operate_confirm on the entry held: ignore deletes it; execute checks the
\* client and runs the group.
operate_confirm_act(i) ==
    LET req == reqs[i]
        entry == Head(req.held)
        og == deserialize(entry.operations)
    IN  /\ req.pc = "act"
        /\ \/ /\ req.action = "ignore"
              /\ confirm' = [confirm EXCEPT ![entry.content_pid] = NoConfirm]
              /\ reqs' = [reqs EXCEPT ![i] = Returns(req, "True")]
              /\ UNCHANGED <<opsrun, runs>>
           \/ /\ req.action = "execute"
              /\ need_bawu(og) /\ client_status # "SUCCESS"
              /\ reqs' = [reqs EXCEPT ![i] =
                             [req EXCEPT !.held = <<>>, !.pc = "done",
                                         !.result = "ValueError"]]
              /\ UNCHANGED <<confirm, opsrun, runs>>
           \/ /\ req.action \notin {"ignore", "execute"}
              /\ reqs' = [reqs EXCEPT ![i] =
                             [req EXCEPT !.held = <<>>, !.pc = "done",
                                         !.result = "ValueError"]]
              /\ UNCHANGED <<confirm, opsrun, runs>>
           \/ /\ req.action = "execute"
              /\ ~(need_bawu(og) /\ client_status # "SUCCESS")
              /\ runs[entry.content_pid] < MaxRuns
              /\ \E succeeded \in BOOLEAN :
                    reqs' = [reqs EXCEPT ![i] =
                                [req EXCEPT !.pc = "delete",
                                            !.ran = @ + Len(operate(og)),
                                            !.succeeded = succeeded]]
              /\ opsrun' = [opsrun EXCEPT ![entry.content_pid] = @ \o operate(og)]
              /\ runs' = IF req.stale THEN runs
                         ELSE [runs EXCEPT ![entry.content_pid] = @ + 1]
              /\ UNCHANGED confirm
        /\ UNCHANGED <<config, client_status, proc, settled>>
        /\ UNCHANGED outsideUser

\* A variant that keeps the entry when an operation failed.
operate_confirm_keeps_failed(i) ==
    LET req == reqs[i]
        entry == Head(req.held)
    IN  /\ req.pc = "delete"
        /\ confirm' = IF req.succeeded
                      THEN [confirm EXCEPT ![entry.content_pid] = NoConfirm]
                      ELSE confirm
        /\ settled' = [settled EXCEPT ![entry.content_pid] = TRUE]
        /\ reqs' = [reqs EXCEPT ![i] = Returns(req, "True")]
        /\ UNCHANGED <<config, client_status, proc, opsrun, runs>>
        /\ UNCHANGED outsideUser

\* operate_confirm after User.operate has returned: the entry is deleted.
operate_confirm_done(i) ==
    LET req == reqs[i]
        entry == Head(req.held)
    IN  /\ req.pc = "delete"
        /\ confirm' = [confirm EXCEPT ![entry.content_pid] = NoConfirm]
        /\ settled' = [settled EXCEPT ![entry.content_pid] = TRUE]
        /\ reqs' = [reqs EXCEPT ![i] = Returns(req, "True")]
        /\ UNCHANGED <<config, client_status, proc, opsrun, runs>>
        /\ UNCHANGED outsideUser

RequestPid == PostPid
Batches == {<<RequestPid>>, <<RequestPid, RequestPid>>}
Actions == {"execute", "ignore"}

CallByPid == \E i \in Slots, action \in Actions : operate_confirm_get(i, RequestPid, action)
RequestOne == \E i \in Slots, action \in Actions : confirm_operation(i, RequestPid, action)
RequestMany == \E i \in Slots, pids \in Batches, action \in Actions : confirm_many(i, pids, action)
ConfirmAct == \E i \in Slots : operate_confirm_act(i)
ConfirmDone == \E i \in Slots : operate_confirm_done(i)

\* Content of the requested pid is processed and hits one blacklist rule.
OneMatch(name) == [n \in RuleNames |-> n = name]
ProcessForConfirm ==
    \E name \in {"B1", "B2"} :
        User_process(UserItem(RequestPid, OwnForum), OneMatch(name))

\* Calls of operate_confirm by pid.
NextConfirm ==
    \/ ProcessForConfirm
    \/ CallByPid
    \/ ConfirmAct
    \/ ConfirmDone
    \/ ConfirmExpire

\* Requests to /api/confirm/confirm, single and batched.
NextRequests ==
    \/ ProcessForConfirm
    \/ RequestOne
    \/ RequestMany
    \/ ConfirmAct
    \/ ConfirmDone
    \/ ConfirmExpire

\* operate_confirm called by pid with any action, as a caller outside the
\* routes may.
AnyActions == Actions \cup {"unknown"}

\* Content of the requested pid hits the rule with the mixed operation list.
ProcessMixed == User_process(UserItem(RequestPid, OwnForum), OneMatch("B1"))

CallAnyAction ==
    \E i \in Slots, action \in AnyActions : operate_confirm_get(i, RequestPid, action)

NextFailing ==
    \/ ProcessMixed
    \/ CallAnyAction
    \/ ConfirmAct
    \/ ConfirmDone
    \/ ConfirmExpire

\* C3: the operation group stored in an entry is run at most once, whatever
\* the interleaving of single requests and batches.
RunAtMostOnce == \A pid \in UserPids : runs[pid] <= 1

\* C4: once an execute has run the group and returned, the entry is absent,
\* whether or not the operations succeeded, and a call by pid that begins
\* afterwards returns False without running an operation.
AbsentAfterExecute ==
    /\ \A pid \in UserPids : settled[pid] => confirm[pid] = NoConfirm
    /\ \A i \in Slots :
          (reqs[i].late /\ reqs[i].kind = "pid") =>
              /\ reqs[i].pc = "done"
              /\ reqs[i].result = "False"
              /\ reqs[i].ran = 0

WitnessAbsentAfterExecute ==
    \E i, j \in Slots :
        /\ reqs[i].kind = "pid" /\ reqs[i].action = "execute"
        /\ reqs[i].pc = "done" /\ reqs[i].result = "True"
        /\ reqs[i].ran > 0 /\ ~reqs[i].succeeded
        /\ reqs[j].kind = "pid" /\ reqs[j].late
        /\ reqs[j].action = "execute" /\ reqs[j].result = "False"
        /\ settled[RequestPid]

\* The ways in which a call of operate_confirm fails.
Failed(req) == req.pc = "done" /\ req.result \in {"False", "ValueError"}

\* C20: a call of operate_confirm that fails, by finding no entry, by an
\* unknown action or by an execute that needs moderator rights while the
\* client is not logged in, has run no operation, and none of its steps
\* changes the confirmation store or runs an operation.
FailedCallChangesNothing ==
    /\ [](\A i \in Slots : Failed(reqs[i]) => reqs[i].ran = 0)
    /\ [][\A i \in Slots :
            (reqs'[i] # reqs[i] /\ (Failed(reqs'[i]) \/ (reqs'[i].pc = "act" /\ Free(i))))
            => /\ confirm' = confirm
               /\ opsrun' = opsrun
               /\ runs' = runs]_userVars

\* With an entry stored and the client not logged in, one call has refused
\* an execute and another an unknown action; the entry is still stored and
\* nothing has been run for it.
WitnessFailedCallChangesNothing ==
    /\ client_status # "SUCCESS"
    /\ confirm[RequestPid] # NoConfirm
    /\ runs[RequestPid] = 0
    /\ \E i, j \in Slots :
          /\ reqs[i].action = "execute" /\ reqs[i].result = "ValueError" /\ reqs[i].ran = 0
          /\ reqs[j].action = "unknown" /\ reqs[j].result = "ValueError" /\ reqs[j].ran = 0

(***************************************************************************)
(* Part 3.  Lifecycle: Controller, UserManager and the crawler task        *)
(*          src/src/core/controller.py, src/src/core/initialize.py,        *)
(*          src/src/user/manager.py, src/src/tieba/crawler.py              *)
(***************************************************************************)
Usernames == {"u1", "u2"}
MonitoredForums == {"bar", "baz"}
ScanConfigs == {"a", "b"}

\* The part of a UserConfig that the crawler reads.  The rules are not empty
\* and comments are not monitored.
NeedConfigs == [enable : BOOLEAN, fname : MonitoredForums, thread : BOOLEAN, post : {FALSE}]
NoUser == [enable |-> FALSE, fname |-> "none", thread |-> FALSE, post |-> FALSE]

StoredUser == [enable |-> TRUE, fname |-> "bar", thread |-> TRUE, post |-> FALSE]

Loaded == {name \in Usernames : users[name] # NoUser}

add(n1, n2) ==
    [thread |-> n1.thread \/ n2.thread, post |-> n1.post \/ n2.post,
     comment |-> n1.comment \/ n2.comment]

empty == [thread |-> FALSE, post |-> FALSE, comment |-> FALSE]

\* Crawler.update_needs: the sum of the needs of the given users for a forum.
RECURSIVE NeedOf(_, _, _)
NeedOf(loaded, names, fname) ==
    IF names = {}
    THEN empty
    ELSE LET name == CHOOSE n \in names : TRUE
             user == loaded[name]
             rest == NeedOf(loaded, names \ {name}, fname)
         IN  IF user # NoUser /\ user.enable /\ user.fname = fname
             THEN add(rest, [thread |-> user.thread, post |-> user.post, comment |-> FALSE])
             ELSE rest

\* Crawler.update_needs: new_needs, without the forums whose need is empty.
new_needs(loaded) ==
    LET fnames == {fname \in MonitoredForums :
                      ~is_empty(NeedOf(loaded, Usernames, fname))}
    IN  [fname \in fnames |-> NeedOf(loaded, Usernames, fname)]

\* Crawler.start_or_stop: whether the task is set afterwards.
start_or_stop(current_needs, current_task, is_running) ==
    IF DOMAIN current_needs # {} /\ ~current_task /\ is_running
    THEN TRUE
    ELSE IF (DOMAIN current_needs = {} \/ ~is_running) /\ current_task
         THEN FALSE
         ELSE current_task

\* Crawler.update_needs, a listener of UserChange and UserConfigChange.
update_needs(loaded, is_running) ==
    IF needs # new_needs(loaded)
    THEN /\ needs' = new_needs(loaded)
         /\ task' = start_or_stop(new_needs(loaded), task, is_running)
    ELSE UNCHANGED <<needs, task>>

\* Controller.start: Start runs UserManager.load_users, which loads the users
\* of the disk and broadcasts UserChange.
Controller_start ==
    /\ ~running
    /\ running' = TRUE
    /\ users' = disk
    /\ update_needs(disk, TRUE)
    /\ UNCHANGED <<scan, disk>>
    /\ UNCHANGED outsideCtl

\* Controller.stop: Stop runs UserManager.clear_users and
\* Crawler.start_or_stop.
Controller_stop ==
    /\ running
    /\ running' = FALSE
    /\ users' = [name \in Usernames |-> NoUser]
    /\ task' = start_or_stop(needs, task, FALSE)
    /\ UNCHANGED <<scan, disk, needs>>
    /\ UNCHANGED outsideCtl

\* Controller.update_config: SystemConfigChange runs Crawler.restart, which
\* replaces a running task by a new one.
Controller_update_config ==
    /\ \E new_scan \in ScanConfigs :
        /\ new_scan # scan
        /\ scan' = new_scan
    /\ UNCHANGED <<running, disk, users, needs, task>>
    /\ UNCHANGED outsideCtl

\* UserManager.new_user: no event is broadcast.  The routes that reach the
\* UserManager are served between Controller.start and Controller.stop.
new_user ==
    /\ running
    /\ \E name \in Usernames, cfg \in NeedConfigs, force \in BOOLEAN :
        /\ users[name] = NoUser \/ force
        /\ users' = [users EXCEPT ![name] = cfg]
        /\ disk' = [disk EXCEPT ![name] = cfg]
    /\ UNCHANGED <<running, scan, needs, task>>
    /\ UNCHANGED outsideCtl

\* UserManager.delete_user
delete_user ==
    /\ running
    /\ \E name \in Loaded :
        /\ users' = [users EXCEPT ![name] = NoUser]
        /\ disk' = [disk EXCEPT ![name] = NoUser]
        /\ update_needs([users EXCEPT ![name] = NoUser], running)
    /\ UNCHANGED <<running, scan>>
    /\ UNCHANGED outsideCtl

\* UserManager.update_config
update_config ==
    /\ running
    /\ \E name \in Loaded, cfg \in NeedConfigs :
        /\ users' = [users EXCEPT ![name] = cfg]
        /\ disk' = [disk EXCEPT ![name] = cfg]
        /\ update_needs([users EXCEPT ![name] = cfg], running)
    /\ UNCHANGED <<running, scan>>
    /\ UNCHANGED outsideCtl

\* Before the first Controller.start, over the given user directories.
InitCtl(disks) ==
    /\ running = FALSE
    /\ scan = "a"
    /\ disk \in disks
    /\ users = [name \in Usernames |-> NoUser]
    /\ needs = <<>>
    /\ task = FALSE

NextCtl ==
    \/ Controller_start
    \/ Controller_stop
    \/ Controller_update_config
    \/ new_user
    \/ delete_user
    \/ update_config

\* C6: with every handler returned, the crawler task is set exactly when the
\* controller is running and Crawler.needs is not empty.
TaskIffRunningAndNeeded == task <=> (running /\ DOMAIN needs # {})

(***************************************************************************)
(* Part 4.  The event bus                                                  *)
(*          src/src/util/event.py, src/src/utils/logging.py                *)
(***************************************************************************)
MaxListeners == 3

\* The functions given to on(): plain or coroutine functions that return or
\* raise an Exception.
Fns == [async : BOOLEAN, raises : BOOLEAN]

\* The closure async_fn that one call of on() creates around fn; id is the
\* number of the call, which tells the closures of one function apart.
Wrapper(id, fn) == [id |-> id, fn |-> fn]

Range(seq) == {seq[k] : k \in DOMAIN seq}

\* The registrations of a function among the given wrappers.
Registrations(wrappers, fn) == Cardinality({w \in wrappers : w.fn = fn})

\* A variant that logs the exception and raises it again.
exception_logger_reraise(raised) == raised

\* exception_logger around the call of fn: whether the exception leaves the
\* wrapper async_fn.
exception_logger(raised) == FALSE

\* A variant that removes every wrapper of the function.
remove_by_fn(list, w) == SelectSeq(list, LAMBDA x : x.fn # w.fn)

\* list.remove(async_fn): the list without the closure.
remove(list, w) == SelectSeq(list, LAMBDA x : x # w)

\* AsyncEvent.on: a new wrapper async_fn is appended for every call.
on ==
    /\ registered < MaxListeners
    /\ \E fn \in Fns : listeners' = Append(listeners, Wrapper(registered + 1, fn))
    /\ registered' = registered + 1
    /\ UNCHANGED <<unregistered, gathering, calls, expected, outcome>>
    /\ UNCHANGED outsideBus

\* EventListener.un_register of a wrapper in the list.
un_register ==
    /\ \E w \in Range(listeners) :
        /\ listeners' = remove(listeners, w)
        /\ unregistered' = unregistered \cup {w.id}
    /\ UNCHANGED <<registered, gathering, calls, expected, outcome>>
    /\ UNCHANGED outsideBus

\* AsyncEvent.broadcast is called: gather receives one coroutine for every
\* wrapper in the list.
broadcast ==
    /\ outcome # "pending"
    /\ gathering = {}
    /\ gathering' = Range(listeners)
    /\ calls' = [fn \in Fns |-> 0]
    /\ expected' = [fn \in Fns |-> Registrations(Range(listeners), fn)]
    /\ outcome' = "pending"
    /\ UNCHANGED <<listeners, registered, unregistered>>
    /\ UNCHANGED outsideBus

\* One coroutine of the gather runs: async_fn calls fn under
\* exception_logger.  An exception that left the wrapper is raised by gather
\* to the caller of broadcast, while the other coroutines go on.
async_fn ==
    /\ \E w \in gathering :
        /\ gathering' = gathering \ {w}
        /\ calls' = [calls EXCEPT ![w.fn] = @ + 1]
        /\ outcome' = IF exception_logger(w.fn.raises) THEN "raised" ELSE outcome
    /\ UNCHANGED <<listeners, registered, unregistered, expected>>
    /\ UNCHANGED outsideBus

\* gather is done and broadcast returns.
broadcast_return ==
    /\ outcome = "pending"
    /\ gathering = {}
    /\ outcome' = "returned"
    /\ UNCHANGED <<listeners, registered, unregistered, gathering, calls, expected>>
    /\ UNCHANGED outsideBus

InitBus ==
    /\ listeners = <<>>
    /\ registered = 0
    /\ unregistered = {}
    /\ gathering = {}
    /\ calls = [fn \in Fns |-> 0]
    /\ expected = [fn \in Fns |-> 0]
    /\ outcome = "none"

NextBus ==
    \/ on
    \/ un_register
    \/ broadcast
    \/ async_fn
    \/ broadcast_return

\* C10: a broadcast calls every function once for each of its registrations
\* at the time of the call and returns without raising, also when listeners
\* raise.
BroadcastCallsEach ==
    /\ outcome # "raised"
    /\ outcome = "returned" => calls = expected
    /\ outcome = "pending" =>
          \A fn \in Fns : calls[fn] + Registrations(gathering, fn) = expected[fn]

WitnessBroadcastCallsEach ==
    /\ outcome = "returned"
    /\ calls[[async |-> FALSE, raises |-> TRUE]] = 2
    /\ calls[[async |-> TRUE, raises |-> FALSE]] = 1
    /\ Len(listeners) < MaxListeners

\* The ids of the wrappers in a list, in order.
IdsOf(list) == [k \in DOMAIN list |-> list[k].id]

\* The ids 1..n that are not in the set gone, in increasing order.
RECURSIVE LiveIds(_, _)
LiveIds(n, gone) ==
    IF n = 0 THEN <<>>
    ELSE IF n \in gone THEN LiveIds(n - 1, gone)
         ELSE Append(LiveIds(n - 1, gone), n)

\* C11: once un_register has returned for a listener, the list holds every
\* other registration as before, in order, and the listener is in the gather
\* of no broadcast that starts afterwards; a gather takes up no coroutine
\* after its start and only coroutines of the gather are run.
UnregisteredNotInvoked ==
    /\ [](IdsOf(listeners) = LiveIds(registered, unregistered))
    /\ [][/\ (unregistered' # unregistered) =>
                \E k \in DOMAIN listeners :
                    /\ unregistered' = unregistered \cup {listeners[k].id}
                    /\ listeners' = [j \in 1..(Len(listeners) - 1) |->
                                        IF j < k THEN listeners[j] ELSE listeners[j + 1]]
                    /\ gathering' = gathering
          /\ (outcome # "pending" /\ outcome' = "pending") =>
                /\ \A w \in gathering' : w.id \notin unregistered
                /\ gathering' = Range(listeners)
          /\ ~(outcome # "pending" /\ outcome' = "pending") =>
                gathering' \subseteq gathering
          /\ (calls' # calls /\ outcome = "pending") =>
                \E w \in gathering :
                    /\ gathering' = gathering \ {w}
                    /\ calls' = [calls EXCEPT ![w.fn] = @ + 1]
         ]_busVars

WitnessUnregisteredNotInvoked ==
    /\ outcome = "returned"
    /\ unregistered = {2}
    /\ IdsOf(listeners) = <<1, 3>>
    /\ listeners[1].fn = listeners[2].fn
    /\ calls[listeners[1].fn] = 2
    /\ \A fn \in Fns : fn # listeners[1].fn => calls[fn] = 0

(***************************************************************************)
(* Part 5.  ExpireCache over its cashews backend                           *)
(*          src/src/util/cache.py                                          *)
(*                                                                         *)
(* The backend is the cashews library: it is taken by the contract of its  *)
(* interface.  An entry whose time to live has elapsed stays in the        *)
(* backend's storage until the backend or a caller removes it; get and     *)
(* get_match do not return it and get_expire answers NOT_EXIST for it.     *)
(***************************************************************************)
MaxSets == 2
MaxChanges == 2

\* cashews.backends.interface
UNLIMITED == -1
NOT_EXIST == -2

Keys == {"k1", "k2"}
KeyOrder == <<"k1", "k2">>

\* expire_time at construction, and the arguments of set_expire_time.
InitialTimes == {None, 2}
NewTimes == {-2, 0, 1, 3}

\* An entry of the backend: ttl is the time left (UNLIMITED for none, 0 once
\* it has elapsed), born numbers the set() that wrote it and asked is the
\* expire argument of that set().
NoEntry == [kept |-> FALSE, ttl |-> 0, born |-> 0, asked |-> 0]
Live(e) == e.kept /\ e.ttl # 0
Elapsed(e) == e.kept /\ e.ttl = 0

\* Backend.set(key, value, expire): the time to live of the new entry.  No
\* expire means no expiry; expire = 0 means no expiry to the memory backend
\* and an entry that has elapsed at once to the disk backend.
backend_set(expire) ==
    IF expire = None THEN {UNLIMITED}
    ELSE IF expire > 0 THEN {expire}
    ELSE IF expire = 0 THEN {UNLIMITED, 0}
    ELSE {0}

\* Backend.get_expire(key)
backend_get_expire(e) == IF Live(e) THEN e.ttl ELSE NOT_EXIST

\* Backend.get(key, default=None): the entries returned.
backend_get(e) == IF Live(e) THEN {e.born} ELSE {}

\* Backend.expire(key, timeout)
backend_expire(e, timeout) == IF Live(e) THEN [e EXCEPT !.ttl = timeout] ELSE e

\* Backend.scan("*"): the keys in storage.
IsKept(key) == entries[key].kept
backend_scan == SelectSeq(KeyOrder, IsKept)

\* A call in progress notes what other callers and the clock do to the entries.
Idle == [pc |-> "idle", todo |-> <<>>, start |-> [key \in Keys |-> NoEntry],
         touched |-> {}, ticked |-> FALSE]
Touch(p, keys) == IF p.pc = "idle" THEN p ELSE [p EXCEPT !.touched = @ \cup keys]
Ticked(p) == IF p.pc = "idle" THEN p ELSE [p EXCEPT !.ticked = TRUE]

NoExpire == Idle @@ [expired_keys |-> {}]
NoChange == Idle @@ [old |-> None, new |-> None, delta |-> 0, held |-> 0, after |-> 0]
NoGot == [op |-> "none", asked |-> {}, returned |-> {}]

\* ExpireCache.set
set(key) ==
    /\ sets < MaxSets
    /\ \E ttl \in backend_set(expire_time) :
          entries' = [entries EXCEPT ![key] =
                       [kept |-> TRUE, ttl |-> ttl, born |-> sets + 1,
                        asked |-> expire_time]]
    /\ sets' = sets + 1
    /\ exp' = Touch(exp, {key})
    /\ chg' = Touch(chg, {key})
    /\ UNCHANGED <<expire_time, changes, got>>
    /\ UNCHANGED outsideCache

\* ExpireCache.get
get(key) ==
    /\ got' = [op |-> "get", asked |-> {entries[key]} \ {NoEntry},
               returned |-> backend_get(entries[key])]
    /\ UNCHANGED <<entries, expire_time, sets, changes, exp, chg>>
    /\ UNCHANGED outsideCache

\* ExpireCache.values
values ==
    /\ got' = [op |-> "values", asked |-> {entries[key] : key \in Keys} \ {NoEntry},
               returned |-> UNION {backend_get(entries[key]) : key \in Keys}]
    /\ UNCHANGED <<entries, expire_time, sets, changes, exp, chg>>
    /\ UNCHANGED outsideCache

\* ExpireCache.delete
delete(key) ==
    /\ entries[key].kept
    /\ entries' = [entries EXCEPT ![key] = NoEntry]
    /\ exp' = Touch(exp, {key})
    /\ chg' = Touch(chg, {key})
    /\ UNCHANGED <<expire_time, sets, changes, got>>
    /\ UNCHANGED outsideCache

\* Time passes: every finite time to live that is left goes down by one.
Tick ==
    /\ \E key \in Keys : entries[key].kept /\ entries[key].ttl > 0
    /\ entries' = [key \in Keys |->
                    IF entries[key].kept /\ entries[key].ttl > 0
                    THEN [entries[key] EXCEPT !.ttl = @ - 1] ELSE entries[key]]
    /\ exp' = Ticked(exp)
    /\ chg' = Ticked(chg)
    /\ UNCHANGED <<expire_time, sets, changes, got>>
    /\ UNCHANGED outsideCache

\* The backend drops an elapsed entry on its own.
BackendPurge ==
    /\ \E key \in Keys :
          /\ Elapsed(entries[key])
          /\ entries' = [entries EXCEPT ![key] = NoEntry]
    /\ exp' = Ticked(exp)
    /\ chg' = Ticked(chg)
    /\ UNCHANGED <<expire_time, sets, changes, got>>
    /\ UNCHANGED outsideCache

\* ExpireCache.expire, the listener of ClearCache: the scan begins.
expire_scan ==
    /\ exp.pc \in {"idle", "returned"}
    /\ exp' = [NoExpire EXCEPT !.pc = IF backend_scan = <<>> THEN "delete" ELSE "check",
                               !.todo = backend_scan, !.start = entries]
    /\ UNCHANGED <<entries, expire_time, sets, changes, got, chg>>
    /\ UNCHANGED outsideCache

\* A variant that takes every key whose time to live is not unlimited.
expire_check_finite(e) == backend_get_expire(e) # UNLIMITED

\* ExpireCache.expire: whether the key is added to expired_keys.
expire_check(e) == backend_get_expire(e) = NOT_EXIST

\* ExpireCache.expire: get_expire of the next key.
expire_next ==
    /\ exp.pc = "check"
    /\ exp' = [exp EXCEPT
                  !.expired_keys = IF expire_check(entries[Head(exp.todo)])
                                   THEN @ \cup {Head(exp.todo)} ELSE @,
                  !.todo = Tail(@),
                  !.pc = IF Len(exp.todo) = 1 THEN "delete" ELSE "check"]
    /\ UNCHANGED <<entries, expire_time, sets, changes, got, chg>>
    /\ UNCHANGED outsideCache

\* ExpireCache.expire: the collected keys are deleted and the listener
\* returns.
expire_delete ==
    /\ exp.pc = "delete"
    /\ entries' = [key \in Keys |->
                    IF key \in exp.expired_keys THEN NoEntry ELSE entries[key]]
    /\ exp' = [exp EXCEPT !.pc = "returned"]
    /\ chg' = Touch(chg, exp.expired_keys)
    /\ UNCHANGED <<expire_time, sets, changes, got>>
    /\ UNCHANGED outsideCache

\* ExpireCache.set_expire_time(new_expire_time): the delta and the scan.
set_expire_time(new_expire_time) ==
    /\ chg.pc \in {"idle", "returned"}
    /\ changes < MaxChanges
    /\ changes' = changes + 1
    /\ chg' = [NoChange EXCEPT
                  !.pc = IF backend_scan = <<>> THEN "assign" ELSE "read",
                  !.todo = backend_scan, !.start = entries,
                  !.old = expire_time, !.new = new_expire_time,
                  !.delta = new_expire_time
                            - (IF expire_time = None THEN 0 ELSE expire_time)]
    /\ UNCHANGED <<entries, expire_time, sets, got, exp>>
    /\ UNCHANGED outsideCache

\* set_expire_time: get_expire of the next key.
set_expire_time_read ==
    /\ chg.pc = "read"
    /\ chg' = [chg EXCEPT !.held = backend_get_expire(entries[Head(chg.todo)]),
                          !.pc = "act"]
    /\ UNCHANGED <<entries, expire_time, sets, changes, got, exp>>
    /\ UNCHANGED outsideCache

\* set_expire_time: what becomes of an entry whose get_expire was expire.
new_entry(e, expire, expire_delta) ==
    IF expire = UNLIMITED THEN e
    ELSE IF expire = NOT_EXIST THEN NoEntry
    ELSE IF expire + expire_delta <= 0 THEN NoEntry
    ELSE backend_expire(e, expire + expire_delta)

\* set_expire_time: the key is left, deleted or given its new time to live.
set_expire_time_act ==
    /\ chg.pc = "act"
    /\ entries' = [entries EXCEPT ![Head(chg.todo)] = new_entry(@, chg.held, chg.delta)]
    /\ chg' = [chg EXCEPT !.todo = Tail(@),
                          !.pc = IF Len(chg.todo) = 1 THEN "assign" ELSE "read"]
    /\ exp' = Touch(exp, {Head(chg.todo)})
    /\ UNCHANGED <<expire_time, sets, changes, got>>
    /\ UNCHANGED outsideCache

\* set_expire_time: self.expire_time = new_expire_time, and the call returns.
set_expire_time_assign ==
    /\ chg.pc = "assign"
    /\ expire_time' = chg.new
    /\ chg' = [chg EXCEPT !.pc = "returned", !.after = sets]
    /\ UNCHANGED <<entries, sets, changes, got, exp>>
    /\ UNCHANGED outsideCache

InitCache(times) ==
    /\ entries = [key \in Keys |-> NoEntry]
    /\ expire_time \in times
    /\ sets = 0
    /\ changes = 0
    /\ got = NoGot
    /\ exp = NoExpire
    /\ chg = NoChange

CacheSet == \E key \in Keys : set(key)
CacheGet == \E key \in Keys : get(key)
CacheDelete == \E key \in Keys : delete(key)
CacheChange == \E new_expire_time \in NewTimes : set_expire_time(new_expire_time)

\* The entries under changes of its expire time.
NextTtl ==
    \/ CacheSet
    \/ CacheDelete
    \/ Tick
    \/ CacheChange
    \/ set_expire_time_read
    \/ set_expire_time_act
    \/ set_expire_time_assign

\* The entries under reads and ClearCache broadcasts.
NextExpire ==
    \/ CacheSet
    \/ CacheGet
    \/ values
    \/ CacheDelete
    \/ Tick
    \/ BackendPurge
    \/ expire_scan
    \/ expire_next
    \/ expire_delete

Undisturbed(p) == p.touched = {} /\ ~p.ticked

\* The expire time before the call, as set_expire_time reads it.
OldTime == IF chg.old = None THEN 0 ELSE chg.old

\* When set_expire_time(new) has returned, with no other caller and no tick
\* in between, every entry that had a finite time left has it changed by
\* new - old or is gone if that is not above zero, every elapsed entry is
\* gone, every unlimited entry is as before, and every set() after the
\* return asks the backend for new.
TtlChangedByDelta ==
    (chg.pc = "returned") =>
        /\ expire_time = chg.new
        /\ \A key \in Keys : entries[key].born > chg.after => entries[key].asked = chg.new
        /\ Undisturbed(chg) =>
              \A key \in Keys :
                  LET was == chg.start[key]
                      ttl == was.ttl + (chg.new - OldTime)
                  IN  /\ ~was.kept => entries[key] = NoEntry
                      /\ Elapsed(was) => entries[key] = NoEntry
                      /\ (was.kept /\ was.ttl = UNLIMITED) => entries[key] = was
                      /\ (was.kept /\ was.ttl > 0) =>
                            entries[key] = IF ttl <= 0 THEN NoEntry
                                           ELSE [was EXCEPT !.ttl = ttl]

\* C12: set_expire_time(new) changes the time left of every entry with a
\* finite time to live by new - old, deletes the entries for which that is
\* not above zero, so that no entry with a finite time to live is left when
\* new <= 0, leaves unlimited entries unlimited and makes every later set()
\* use new.
TtlAdjusted ==
    /\ TtlChangedByDelta
    /\ (chg.pc = "returned" /\ Undisturbed(chg) /\ chg.new <= 0) =>
          \A key \in Keys : ~(entries[key].kept /\ entries[key].ttl > 0)

MaxPage == 5
MaxForward == 3
MaxBackward == 3

\* ScanConfig.post_page_forward and post_page_backward are plain ints.
Forwards == -1 .. MaxForward
Backwards == -1 .. MaxBackward
\* total_page of the first response; GetPostData() of a failed request has 0.
TotalPages == 0 .. MaxPage
PageNumbers == 1 .. MaxPage

min(a, b) == IF a < b THEN a ELSE b
max(a, b) == IF a > b THEN a ELSE b

\* list(range(start, stop)) and list(range(start, stop, -1))
range(start, stop) == [i \in 1 .. max(stop - start, 0) |-> start + i - 1]
range_down(start, stop) == [i \in 1 .. max(start - stop, 0) |-> start - i + 1]

\* A variant whose second stretch starts one page early.
post_pages_overlap(forward, backward, total) ==
    LET first == range(2, min(forward + 1, total + 1))
    IN  IF total < forward + backward
        THEN first \o range(Len(first) + 1, total + 1)
        ELSE first \o range_down(total, max(total - backward, forward))

\* The pages after the first that a descent fetches, in order.
post_pages(forward, backward, total) ==
    LET first == range(2, min(forward + 1, total + 1))
    IN  IF total < forward + backward
        THEN first \o range(Len(first) + 2, total + 1)
        ELSE first \o range_down(total, max(total - backward, forward))

\* data = await self.browser.get_posts(thread.tid, pn=1); pages = ...
get_posts_first ==
    /\ ppc \in {"idle", "posts"}
    /\ \E total \in TotalPages :
          /\ total_page' = total
          /\ pages' = post_pages(post_scan.post_page_forward,
                                 post_scan.post_page_backward, total)
    /\ fetched' = [pn \in PageNumbers |-> IF pn = 1 THEN 1 ELSE 0]
    /\ ppc' = "pages"
    /\ UNCHANGED post_scan
    /\ UNCHANGED outsidePage

\* for i in pages: data = await self.browser.get_posts(thread.tid, pn=i)
get_posts_page ==
    /\ ppc = "pages"
    /\ pages # <<>>
    /\ fetched' = [fetched EXCEPT ![Head(pages)] = @ + 1]
    /\ pages' = Tail(pages)
    /\ UNCHANGED <<post_scan, total_page, ppc>>
    /\ UNCHANGED outsidePage

\* The page loop ends and the loop over raw_posts begins.
pages_done ==
    /\ ppc = "pages"
    /\ pages = <<>>
    /\ ppc' = "posts"
    /\ UNCHANGED <<post_scan, total_page, pages, fetched>>
    /\ UNCHANGED outsidePage

InitPage(forwards, backwards) ==
    /\ post_scan \in [post_page_forward : forwards, post_page_backward : backwards]
    /\ total_page = 0
    /\ pages = <<>>
    /\ fetched = [pn \in PageNumbers |-> 0]
    /\ ppc = "idle"

NextPage ==
    \/ get_posts_first
    \/ get_posts_page
    \/ pages_done

\* The thread descended into has fewer pages than the two windows together.
ShortThread ==
    total_page < post_scan.post_page_forward + post_scan.post_page_backward

\* C15: when the thread has fewer pages than post_page_forward +
\* post_page_backward, the descent requests each of the pages 1..total_page
\* exactly once and no page beyond them, and requests no page twice on the
\* way.
EveryPageOnce ==
    (ppc # "idle" /\ ShortThread) =>
        /\ \A pn \in PageNumbers : fetched[pn] <= 1
        /\ ppc = "posts" =>
              \A pn \in PageNumbers :
                  fetched[pn] = IF pn <= total_page \/ pn = 1 THEN 1 ELSE 0

\* A thread of four pages under windows of two and three, which overlap: all
\* four pages have been requested once.
WitnessEveryPageOnce ==
    /\ ppc = "posts"
    /\ post_scan = [post_page_forward |-> 2, post_page_backward |-> 3]
    /\ total_page = 4
    /\ \A pn \in 1 .. 4 : fetched[pn] = 1
    /\ fetched[5] = 0

\* The pages the two windows name: page 1, the forward window and, when the
\* thread has at least post_page_forward + post_page_backward pages, the tail.
InWindows(pn) ==
    \/ pn = 1
    \/ 2 <= pn /\ pn <= min(post_scan.post_page_forward, total_page)
    \/ /\ total_page >= post_scan.post_page_forward + post_scan.post_page_backward
       /\ total_page - post_scan.post_page_backward + 1 <= pn
       /\ pn <= total_page

\* C39: for every total_page >= 0, post_page_forward >= 0 and
\* post_page_backward >= 0 the pages fetched for one thread are page 1, the
\* forward window 2..min(post_page_forward, total_page) and, when total_page
\* >= post_page_forward + post_page_backward, the tail
\* total_page-post_page_backward+1..total_page, and no page, page 1
\* included, is fetched more than once.
WindowsOnce ==
    (/\ ppc # "idle"
     /\ post_scan.post_page_forward >= 0
     /\ post_scan.post_page_backward >= 0) =>
        /\ \A pn \in PageNumbers : fetched[pn] <= 1
        /\ ppc = "posts" =>
              \A pn \in PageNumbers : fetched[pn] = IF InWindows(pn) THEN 1 ELSE 0

\* With post_page_forward >= 1 no page is fetched twice, and a thread of
\* at least post_page_forward + post_page_backward pages has the pages of
\* the two windows fetched.
WindowsOnceForwardPositive ==
    (/\ ppc # "idle"
     /\ post_scan.post_page_forward >= 1
     /\ post_scan.post_page_backward >= 0) =>
        /\ \A pn \in PageNumbers : fetched[pn] <= 1
        /\ (ppc = "posts" /\ ~ShortThread) =>
              \A pn \in PageNumbers : fetched[pn] = IF InWindows(pn) THEN 1 ELSE 0

\* post_page_forward 0, post_page_backward 1 and a thread of one page:
\* page 1 has been fetched twice.
WitnessFirstPageTwice ==
    /\ ppc = "posts"
    /\ post_scan = [post_page_forward |-> 0, post_page_backward |-> 1]
    /\ total_page = 1
    /\ fetched[1] = 2

(***************************************************************************)
(* Part 7.  The content table under save_items                             *)
(*          src/src/db/interface.py, src/src/models/models.py              *)
(***************************************************************************)

\* Bound on the items of one save_items call.
MaxBatch == 2

Dialects == {"sqlite", "postgresql"}
Conflicts == {"ignore", "upsert"}
RowPids == {ThreadPid, PostPid}
RowTimes == {None, 1}

\* ContentModel instances handed to save_items, and the rows of the table.
Models == [pid : RowPids, last_time : RowTimes]
RowOf(inst) ==
    [pid |-> inst.pid, last_time |-> inst.last_time]
ItemLists ==
    UNION {[1 .. n -> Models] : n \in 0 .. MaxBatch}

HasRow(table, pid) == \E i \in DOMAIN table : table[i].pid = pid

\* INSERT ... ON CONFLICT (pid) DO NOTHING / DO UPDATE SET every non-key
\* column, for one row of the VALUES list.
insert_on_conflict(table, inst, on_conflict) ==
    IF ~HasRow(table, inst.pid)
    THEN Append(table, RowOf(inst))
    ELSE IF on_conflict = "ignore"
         THEN table
         ELSE [i \in DOMAIN table |->
                  IF table[i].pid = inst.pid THEN RowOf(inst) ELSE table[i]]

RECURSIVE execute(_, _, _)
execute(table, items, on_conflict) ==
    IF items = <<>> THEN table
    ELSE execute(insert_on_conflict(table, Head(items), on_conflict), Tail(items),
                 on_conflict)

\* PostgreSQL refuses a DO UPDATE that would touch one row twice in one
\* statement; the session is left without commit.
AffectsRowTwice(items) ==
    \E i, j \in DOMAIN items : i < j /\ items[i].pid = items[j].pid

\* A variant whose "ignore" updates the row in conflict.
save_batch_overwrites(table, items, on_conflict, dia) ==
    IF items = <<>> THEN table
    ELSE execute(table, items, "upsert")

\* Database.save_items(items, on_conflict=...), the table after the call.
save_batch(table, items, on_conflict, dia) ==
    IF items = <<>> THEN table
    ELSE IF on_conflict = "upsert" /\ dia = "postgresql" /\ AffectsRowTwice(items)
         THEN table
         ELSE execute(table, items, on_conflict)

\* The row dictionaries leave out the columns that are None; a VALUES list
\* whose rows differ in their columns may be refused when it is compiled.
Uneven(items) ==
    \E i, j \in DOMAIN items : (items[i].last_time = None) # (items[j].last_time = None)

NoSave == [items |-> <<>>, on_conflict |-> "none", before |-> <<>>]

TableSave ==
    /\ \E items \in ItemLists, on_conflict \in Conflicts :
          /\ \/ rows' = save_batch(rows, items, on_conflict, dialect)
             \/ Uneven(items) /\ rows' = rows
          /\ lastSave' = [items |-> items, on_conflict |-> on_conflict, before |-> rows]
    /\ UNCHANGED dialect
    /\ UNCHANGED outsideTable

\* check_and_update_cache: UPDATE content SET last_time = ... WHERE pid = ...
TableClassify ==
    /\ \E pid \in RowPids, lt \in RowTimes :
          rows' = [i \in DOMAIN rows |->
                      IF rows[i].pid = pid
                      THEN [rows[i] EXCEPT !.last_time = lt]
                      ELSE rows[i]]
    /\ lastSave' = NoSave
    /\ UNCHANGED dialect
    /\ UNCHANGED outsideTable

InitTable(dialects) ==
    /\ dialect \in dialects
    /\ rows = <<>>
    /\ lastSave = NoSave

NextTable ==
    \/ TableSave
    \/ TableClassify

\* C16: after any sequence of save_items and classifier calls the content
\* table holds at most one row per pid, and a save_items call with
\* on_conflict = "ignore" leaves every row unchanged whose pid is among the
\* items saved.
OneRowPerPid ==
    /\ \A i, j \in DOMAIN rows : rows[i].pid = rows[j].pid => i = j
    /\ lastSave.on_conflict = "ignore" =>
          \A i \in DOMAIN lastSave.before :
              (\E k \in DOMAIN lastSave.items :
                   lastSave.items[k].pid = lastSave.before[i].pid)
              => /\ i \in DOMAIN rows
                 /\ rows[i] = lastSave.before[i]

\* The post had a row without last_time; save_items with "ignore" was
\* handed the post with last_time 1 and the thread: the post's row is as it
\* was and the thread has a row.
WitnessOneRowPerPid ==
    /\ lastSave.on_conflict = "ignore"
    /\ Len(lastSave.before) = 1
    /\ lastSave.before[1] = [pid |-> PostPid, last_time |-> None]
    /\ Len(lastSave.items) = 2
    /\ lastSave.items[1] = [pid |-> PostPid, last_time |-> 1]
    /\ lastSave.items[2].pid = ThreadPid
    /\ Len(rows) = 2
    /\ rows[1] = lastSave.before[1]
    /\ rows[2].pid = ThreadPid

(***************************************************************************)
(* Part 8.  Conditions of a rule and the lists of the Processer            *)
(*          src/src/rule/condition.py, src/src/process/process.py          *)
(***************************************************************************)

\* Bound on the conditions of the rule.
MaxConditions == 3

Priorities == {50, 60}
ConditionTemplate == [valid : BOOLEAN, priority : Priorities]
ConditionLists == UNION {[1 .. n -> ConditionTemplate] : n \in 0 .. MaxConditions}

\* order.sort(key=priority, reverse=True): descending priority; equal
\* priorities keep their places.
Before(conds, i, j) ==
    \/ conds[i].priority > conds[j].priority
    \/ conds[i].priority = conds[j].priority /\ i < j

RECURSIVE sorted_order(_, _)
sorted_order(conds, left) ==
    IF left = {} THEN <<>>
    ELSE LET first == CHOOSE i \in left : \A j \in left \ {i} : Before(conds, i, j)
         IN  <<first>> \o sorted_order(conds, left \ {first})

\* ConditionGroup.__init__: self.order = [i for i in order if conditions[i].valid]
condition_order(conds) ==
    SelectSeq(sorted_order(conds, DOMAIN conds), LAMBDA i : conds[i].valid)

\* ConditionGroup.valid: bool(len(self.conditions))
condition_group_valid(conds) == Len(conds) # 0

\* Rule.valid, as RuleSet.valid hands on the validity of its group.
rule_valid(conds) == condition_group_valid(conds)

NoLists == [whitelist_rules |-> FALSE, rules |-> FALSE]

\* Processer.__init__ over the rule of the configuration.
Processer ==
    /\ rpc = "config"
    /\ order' = condition_order(conditions)
    /\ listed' = [whitelist_rules |-> rule_valid(conditions) /\ rule_whitelist,
                  rules |-> rule_valid(conditions) /\ ~rule_whitelist]
    /\ rpc' = "built"
    /\ UNCHANGED <<conditions, rule_whitelist, examined>>
    /\ UNCHANGED outsideRule

\* Processer.process reaches the rule in one of its lists: rule.check(obj)
\* begins for a new content.
rule_check ==
    /\ rpc \in {"built", "checked"}
    /\ listed.whitelist_rules \/ listed.rules
    /\ examined' = <<>>
    /\ rpc' = "checking"
    /\ UNCHANGED <<conditions, rule_whitelist, order, listed>>
    /\ UNCHANGED outsideRule

\* for i, condition in self.conditions: the next condition of the order is
\* checked; a condition that fails ends the check.
condition_check ==
    /\ rpc = "checking"
    /\ Len(examined) < Len(order)
    /\ examined' = Append(examined, order[Len(examined) + 1])
    /\ \E result \in BOOLEAN : rpc' = IF result THEN "checking" ELSE "checked"
    /\ UNCHANGED <<conditions, rule_whitelist, order, listed>>
    /\ UNCHANGED outsideRule

\* Every condition of the order held: the rule matches.
rule_check_return ==
    /\ rpc = "checking"
    /\ Len(examined) = Len(order)
    /\ rpc' = "checked"
    /\ UNCHANGED <<conditions, rule_whitelist, order, listed, examined>>
    /\ UNCHANGED outsideRule

\* User.update_config: a new configuration, from which a new Processer is
\* built.
rule_update_config ==
    /\ rpc \in {"built", "checked"}
    /\ conditions' \in ConditionLists
    /\ rule_whitelist' \in BOOLEAN
    /\ order' = <<>>
    /\ listed' = NoLists
    /\ examined' = <<>>
    /\ rpc' = "config"
    /\ UNCHANGED outsideRule

InitRule(lists, whitelists) ==
    /\ conditions \in lists
    /\ rule_whitelist \in whitelists
    /\ order = <<>>
    /\ listed = NoLists
    /\ examined = <<>>
    /\ rpc = "config"

NextRule ==
    \/ Processer
    \/ rule_check
    \/ condition_check
    \/ rule_check_return
    \/ rule_update_config

\* The conditions checked for a content are valid ones.
OnlyValidExamined ==
    \A k \in DOMAIN examined : conditions[examined[k]].valid

MaxEvents == 4
MaxSent == 2

ControllerEvents == {"Start", "Stop", "SystemConfigChange"}

\* What a call found when it began.
Found == [running |-> running, scan |-> scan, events |-> events, sent |-> sent, file |-> file]
Call(op, noop, failed) == [op |-> op, noop |-> noop, failed |-> failed, found |-> Found]
NoCtlCall ==
    [op |-> "none", noop |-> FALSE, failed |-> FALSE,
     found |-> [running |-> FALSE, scan |-> "a", events |-> <<>>, sent |-> <<>>,
                file |-> "a"]]

\* A variant without the check of the flag.
start_unguarded ==
    /\ Len(events) < MaxEvents
    /\ running' = TRUE
    /\ events' = Append(events, "Start")
    /\ flying' = [flying EXCEPT !["Start"] = @ + 1]
    /\ ctl_call' = Call("start", FALSE, FALSE)
    /\ UNCHANGED <<scan, disk, users, needs, task, sent, file>>
    /\ UNCHANGED outsideCalls

\* Controller.start up to its await: the check, the flag and the call of
\* Start.broadcast.
start ==
    /\ \/ /\ running
          /\ ctl_call' = Call("start", TRUE, FALSE)
          /\ UNCHANGED <<running, events, flying>>
       \/ /\ ~running
          /\ Len(events) < MaxEvents
          /\ running' = TRUE
          /\ events' = Append(events, "Start")
          /\ flying' = [flying EXCEPT !["Start"] = @ + 1]
          /\ ctl_call' = Call("start", FALSE, FALSE)
    /\ UNCHANGED <<scan, disk, users, needs, task, sent, file>>
    /\ UNCHANGED outsideCalls

\* Controller.stop up to its await.
stop ==
    /\ \/ /\ ~running
          /\ ctl_call' = Call("stop", TRUE, FALSE)
          /\ UNCHANGED <<running, events, flying>>
       \/ /\ running
          /\ Len(events) < MaxEvents
          /\ running' = FALSE
          /\ events' = Append(events, "Stop")
          /\ flying' = [flying EXCEPT !["Stop"] = @ + 1]
          /\ ctl_call' = Call("stop", FALSE, FALSE)
    /\ UNCHANGED <<scan, disk, users, needs, task, sent, file>>
    /\ UNCHANGED outsideCalls

\* The listeners of Start run: UserManager.load_users, which broadcasts
\* UserChange to Crawler.update_needs.
Start_listeners ==
    /\ flying["Start"] > 0
    /\ flying' = [flying EXCEPT !["Start"] = @ - 1]
    /\ users' = disk
    /\ update_needs(disk, running)
    /\ UNCHANGED <<running, scan, disk, events, sent, file, ctl_call>>
    /\ UNCHANGED outsideCalls

\* The listeners of Stop run: UserManager.clear_users and
\* Crawler.start_or_stop.
Stop_listeners ==
    /\ flying["Stop"] > 0
    /\ flying' = [flying EXCEPT !["Stop"] = @ - 1]
    /\ users' = [name \in Usernames |-> NoUser]
    /\ task' = start_or_stop(needs, task, running)
    /\ UNCHANGED <<running, scan, disk, needs, events, sent, file, ctl_call>>
    /\ UNCHANGED outsideCalls

\* write_config(new_config, SYSTEM_CONFIG_PATH): the file afterwards.  The
\* file is opened with mode "w" and then written; either may fail, which
\* leaves the file as it was or cut short.
write_config(new_config) == {new_config}
write_config_fails == {file, "cut"}

\* Controller.update_config(new_config) up to its await.
system_update_config ==
    /\ \E new_config \in ScanConfigs :
          \/ /\ scan = new_config
             /\ ctl_call' = Call("update_config", TRUE, FALSE)
             /\ UNCHANGED <<scan, sent, flying, file>>
          \/ /\ scan # new_config
             /\ Len(sent) < MaxSent
             /\ scan' = new_config
             /\ \/ /\ file' \in write_config(new_config)
                   /\ sent' = Append(sent, [old |-> scan, new |-> new_config])
                   /\ flying' = [flying EXCEPT !["SystemConfigChange"] = @ + 1]
                   /\ ctl_call' = Call("update_config", FALSE, FALSE)
                \/ /\ file' \in write_config_fails
                   /\ ctl_call' = Call("update_config", FALSE, TRUE)
                   /\ UNCHANGED <<sent, flying>>
    /\ UNCHANGED <<running, disk, users, needs, task, events>>
    /\ UNCHANGED outsideCalls

\* The listeners of SystemConfigChange run: Crawler.restart replaces a
\* running task by a new one.
SystemConfigChange_listeners ==
    /\ flying["SystemConfigChange"] > 0
    /\ flying' = [flying EXCEPT !["SystemConfigChange"] = @ - 1]
    /\ UNCHANGED <<ctlVars, events, sent, file, ctl_call>>
    /\ UNCHANGED outsideCalls

InitCalls ==
    /\ events = <<>>
    /\ sent = <<>>
    /\ flying = [e \in ControllerEvents |-> 0]
    /\ file = "a"
    /\ ctl_call = NoCtlCall

NextCalls ==
    \/ start
    \/ stop
    \/ Start_listeners
    \/ Stop_listeners
    \/ system_update_config
    \/ SystemConfigChange_listeners

\* C18: start() while running and stop() while stopped change nothing and
\* broadcast nothing; over every interleaving of the calls the broadcasts on
\* Start and Stop alternate, the first being a Start, and running is true
\* exactly when the latest of them is a Start.
StartStopAlternate ==
    /\ \A i \in DOMAIN events : events[i] = IF i % 2 = 1 THEN "Start" ELSE "Stop"
    /\ running <=> (Len(events) % 2 = 1)
    /\ (ctl_call.op \in {"start", "stop"} /\ ctl_call.noop) =>
          /\ running = ctl_call.found.running
          /\ events = ctl_call.found.events

\* Start, Stop and Start were broadcast, the listeners of two of them have
\* not run yet, and a further start() found the controller running.
WitnessStartStopAlternate ==
    /\ events = <<"Start", "Stop", "Start">>
    /\ running
    /\ ctl_call.op = "start" /\ ctl_call.noop
    /\ flying["Start"] = 1 /\ flying["Stop"] = 1

\* C19: update_config with the current configuration changes and broadcasts
\* nothing; with another one it replaces the configuration, writes the file
\* and broadcasts SystemConfigChange{old, new} once, all or nothing: a write
\* that fails does not leave the configuration replaced without the
\* broadcast.
ConfigChangeAtomic ==
    ctl_call.op = "update_config" =>
        /\ ctl_call.noop =>
              /\ scan = ctl_call.found.scan
              /\ file = ctl_call.found.file
              /\ sent = ctl_call.found.sent
        /\ (~ctl_call.noop /\ ~ctl_call.failed) =>
              /\ scan # ctl_call.found.scan
              /\ file = scan
              /\ sent = Append(ctl_call.found.sent,
                               [old |-> ctl_call.found.scan, new |-> scan])
        /\ ctl_call.failed =>
              /\ scan = ctl_call.found.scan
              /\ sent = ctl_call.found.sent

(***************************************************************************)
(* Part 10.  TiebaClient and the operations run on it                      *)
(*           src/src/user/user.py                                          *)
(***************************************************************************)

\* Bounds on the requests sent and the contents processed.
MaxUpstream == 3
MaxProcessed == 3

\* BDUSS and STOKEN as given: absent, rejected by aiotieba.Client, failing at
\* login, accepted with user_id 0, accepted.
Cookies == {"missing", "malformed", "refused", "invalid", "good"}

OperationNames == {"ignore", "delete", "block", "delete_and_block"}
ContentTypes == {"thread", "post"}

\* TiebaClient.start: the client it leaves and its status.
TiebaClient_start(cookies) ==
    [cookies |-> cookies,
     status |-> CASE cookies = "missing" -> "MISSING_COOKIE"
                  [] cookies = "good" -> "SUCCESS"
                  [] OTHER -> "FAILED",
     client |-> cookies \in {"refused", "invalid", "good"}]

NoOper ==
    [pc |-> "idle", type |-> "thread", name |-> "ignore", todo |-> <<>>,
     results |-> <<>>, saved |-> FALSE]

\* User.update_config with other cookies: the client is stopped and a new
\* one created.
TiebaClient_create ==
    /\ \E cookies \in Cookies \ {tieba.cookies} : tieba' = TiebaClient_start(cookies)
    /\ UNCHANGED <<upstream, plog, oper>>
    /\ UNCHANGED outsideTieba

\* User.process of a content that hits a rule which asks for no
\* confirmation: Processer.process saves the log, then User.operate begins.
User_process_hit ==
    /\ oper.pc \in {"idle", "done"}
    /\ plog < MaxProcessed
    /\ \E type \in ContentTypes, name \in OperationNames :
          \E todo \in {operate(StrGroup(name))} :
             /\ Len(upstream) + Len(todo) <= MaxUpstream
             /\ oper' = [pc |-> IF todo = <<>> THEN "done" ELSE "run",
                         type |-> type, name |-> name, todo |-> todo,
                         results |-> <<>>, saved |-> TRUE]
    /\ plog' = plog + 1
    /\ UNCHANGED <<tieba, upstream>>
    /\ UNCHANGED outsideTieba

\* The request of TiebaClient.delete and TiebaClient.block.
Request(op, type) ==
    CASE op.type = "block" -> "block"
      [] op.type = "delete" /\ type = "thread" -> "del_thread"
      [] OTHER -> "del_post"

\* TiebaClient.delete and TiebaClient.block, called by User.operate: the
\* client property raises InvalidClientError when _client is None, which is
\* caught and logged; otherwise the request goes upstream, and a falsy
\* result is logged.
client_call ==
    /\ oper.pc = "run"
    /\ \E answer \in BOOLEAN :
          /\ ~tieba.client => ~answer
          /\ upstream' = IF tieba.client
                         THEN Append(upstream, [request |-> Request(Head(oper.todo), oper.type),
                                                status |-> tieba.status])
                         ELSE upstream
          /\ oper' = [oper EXCEPT !.todo = Tail(@),
                                  !.results = Append(@, [ok |-> answer, warned |-> ~answer,
                                                         status |-> tieba.status]),
                                  !.pc = IF Len(oper.todo) = 1 THEN "done" ELSE "run"]
    /\ UNCHANGED <<tieba, plog>>
    /\ UNCHANGED outsideTieba

InitTieba(cookies) ==
    /\ tieba \in {TiebaClient_start(c) : c \in cookies}
    /\ upstream = <<>>
    /\ plog = 0
    /\ oper = NoOper

NextTieba ==
    \/ TiebaClient_create
    \/ User_process_hit
    \/ client_call

\* C21: a client whose status is not SUCCESS sends no del_thread, del_post or
\* block request upstream, and a process that ran its operations wholly
\* under such a client has had every attempt logged and failed, with the
\* log of the rule evaluation saved.
UnauthenticatedSendsNothing ==
    /\ \A i \in DOMAIN upstream : upstream[i].status = "SUCCESS"
    /\ oper.pc # "idle" => oper.saved
    /\ \A i \in DOMAIN oper.results :
          oper.results[i].status # "SUCCESS" =>
             ~oper.results[i].ok /\ oper.results[i].warned

\* What holds instead: a client without cookies sends nothing, and the log
\* of the rule evaluation is saved before any operation is attempted.
UnauthenticatedFails ==
    /\ \A i \in DOMAIN upstream : upstream[i].status # "MISSING_COOKIE"
    /\ oper.pc # "idle" => oper.saved

(***************************************************************************)
(* Part 11.  The user_level table under Crawler.crawl                      *)
(*           src/src/tieba/crawler.py, src/src/db/interface.py,            *)
(*           src/src/models/models.py                                      *)
(***************************************************************************)

\* Bounds on the levels and the passes.
MaxLevel == 3
MaxPasses == 3

UserIds == {"a1", "a2"}
Levels == 1..MaxLevel

\* No row, no entry: a level below every level.
NoLevel == 0

\* Database.save_items on UserLevelModel rows: a row whose primary key
\* (user_id, fname) is not in the table is inserted; on a conflict the row of
\* the table is kept under "ignore" and overwritten under "upsert".
save_levels(table, items, on_conflict) ==
    [u \in UserIds |->
        IF items[u] = NoLevel THEN table[u]
        ELSE IF table[u] = NoLevel THEN items[u]
        ELSE IF on_conflict = "upsert" THEN items[u]
        ELSE table[u]]

\* The loop over user_levels at the end of a forum: the models whose level
\* is above the existing row's, or that have no row.
need_update_levels(existing, found) ==
    [u \in UserIds |->
        IF found[u] = NoLevel THEN NoLevel
        ELSE IF existing[u] # NoLevel
             THEN IF found[u] > existing[u] THEN found[u] ELSE NoLevel
             ELSE found[u]]

\* while True: a pass begins with empty user_levels.
crawl_pass ==
    /\ lvpc = "sleep"
    /\ passes < MaxPasses
    /\ passes' = passes + 1
    /\ user_levels' = [u \in UserIds |-> NoLevel]
    /\ lvpc' = "forum"
    /\ UNCHANGED <<user_level, observed>>
    /\ UNCHANGED outsideLevel

\* One content yielded by the spider: the author's level is recorded in
\* user_levels, the highest of the pass.
crawl_content ==
    /\ lvpc = "forum"
    /\ \E u \in UserIds, level \in Levels :
          /\ user_levels' = [user_levels EXCEPT ![u] = IF @ = NoLevel THEN level
                                                       ELSE max(@, level)]
          /\ observed' = [observed EXCEPT ![u] = max(@, level)]
    /\ UNCHANGED <<user_level, passes, lvpc>>
    /\ UNCHANGED outsideLevel

\* The end of the forum and of the pass: the existing rows are read, the
\* models to write are chosen and saved with save_items, whose on_conflict
\* is left at its default.
crawl_save_levels ==
    /\ lvpc = "forum"
    /\ user_level' = save_levels(user_level, need_update_levels(user_level, user_levels),
                                 "ignore")
    /\ lvpc' = "sleep"
    /\ UNCHANGED <<user_levels, observed, passes>>
    /\ UNCHANGED outsideLevel

InitLevel ==
    /\ user_level = [u \in UserIds |-> NoLevel]
    /\ user_levels = [u \in UserIds |-> NoLevel]
    /\ observed = [u \in UserIds |-> NoLevel]
    /\ passes = 0
    /\ lvpc = "sleep"

NextLevel ==
    \/ crawl_pass
    \/ crawl_content
    \/ crawl_save_levels

\* C22: after each completed pass the stored level of a user is at least
\* every level observed for the user in that pass or an earlier one.
StoredLevelIsHighest ==
    lvpc = "sleep" => \A u \in UserIds : user_level[u] >= observed[u]

\* What holds instead: a user observed in a completed pass has a row, and the
\* row holds no more than the highest level observed.
StoredLevelIsObserved ==
    lvpc = "sleep" =>
       \A u \in UserIds : /\ observed[u] # NoLevel => user_level[u] # NoLevel
                          /\ user_level[u] <= observed[u]

(***************************************************************************)
(* Part 12.  The order of the items Spider.crawl yields                    *)
(*           src/src/tieba/crawler.py                                      *)
(***************************************************************************)

\* Bound on the items one response holds.
MaxReturned == 2

ThreadIds == {"ta", "tb"}
PostIds == {"pa", "pb"}
CommentIds == {"ca", "cb"}

\* The lists a response may hold: items of the pool, each once, in any order.
Arrangements(pool) ==
    {s \in UNION {[1..n -> pool] : n \in 0..MaxReturned} :
        \A i, j \in DOMAIN s : i # j => s[i] # s[j]}

ElementsOf(s) == {s[i] : i \in DOMAIN s}
Pos(s, x) == CHOOSE i \in DOMAIN s : s[i] = x

\* s holds items of t only, in the order t has them.
InOrderOf(s, t) ==
    /\ ElementsOf(s) \subseteq ElementsOf(t)
    /\ \A i, j \in DOMAIN s : i < j => Pos(t, s[i]) < Pos(t, s[j])

IdleGen ==
    [pc |-> "idle", thread |-> "none", raw_threads |-> <<>>, raw_posts |-> <<>>,
     raw_comments |-> <<>>]
NothingReturned == [threads |-> <<>>, posts |-> <<>>, comments |-> <<>>]

Yielded(kind, tid, id) == [kind |-> kind, tid |-> tid, id |-> id]

\* The thread list pages are fetched.
crawl_threads ==
    /\ gen.pc = "idle"
    /\ \E ts \in Arrangements(ThreadIds) :
          /\ gen' = [IdleGen EXCEPT !.pc = "threads", !.raw_threads = ts]
          /\ returned' = [NothingReturned EXCEPT !.threads = ts]
    /\ yielded' = <<>>
    /\ UNCHANGED outsideOrder

\* for thread in raw_threads: the thread is yielded if new and wanted; then
\* the loop continues, or the post pages are fetched.
crawl_thread ==
    /\ gen.pc = "threads"
    /\ gen.raw_threads # <<>>
    /\ \E tid \in {Head(gen.raw_threads)}, new \in BOOLEAN :
          /\ yielded' = IF new THEN Append(yielded, Yielded("thread", tid, tid)) ELSE yielded
          /\ \/ /\ gen' = [gen EXCEPT !.raw_threads = Tail(@), !.thread = tid]
                /\ returned' = [returned EXCEPT !.posts = <<>>, !.comments = <<>>]
             \/ \E ps \in Arrangements(PostIds), cs \in Arrangements(CommentIds) :
                   /\ gen' = [gen EXCEPT !.raw_threads = Tail(@), !.thread = tid,
                                         !.raw_posts = ps, !.raw_comments = cs,
                                         !.pc = "posts"]
                   /\ returned' = [returned EXCEPT !.posts = ps, !.comments = cs]
    /\ UNCHANGED outsideOrder

\* A variant that visits the posts from the last to the first.
crawl_post_backwards ==
    /\ gen.pc = "posts"
    /\ gen.raw_posts # <<>>
    /\ \E pid \in {gen.raw_posts[Len(gen.raw_posts)]}, new \in BOOLEAN :
          /\ yielded' = IF new THEN Append(yielded, Yielded("post", gen.thread, pid))
                        ELSE yielded
          /\ \E cs \in Arrangements(CommentIds \ ElementsOf(returned.comments)) :
                /\ gen' = [gen EXCEPT !.raw_posts = SubSeq(@, 1, Len(@) - 1),
                                      !.raw_comments = @ \o cs]
                /\ returned' = [returned EXCEPT !.comments = @ \o cs]
    /\ UNCHANGED outsideOrder

\* for post in raw_posts: the post is yielded if new and wanted; the
\* comments get_comments returns, if it is called, go to the end of
\* raw_comments.
crawl_post ==
    /\ gen.pc = "posts"
    /\ gen.raw_posts # <<>>
    /\ \E pid \in {Head(gen.raw_posts)}, new \in BOOLEAN :
          /\ yielded' = IF new THEN Append(yielded, Yielded("post", gen.thread, pid))
                        ELSE yielded
          /\ \E cs \in Arrangements(CommentIds \ ElementsOf(returned.comments)) :
                /\ gen' = [gen EXCEPT !.raw_posts = Tail(@), !.raw_comments = @ \o cs]
                /\ returned' = [returned EXCEPT !.comments = @ \o cs]
    /\ UNCHANGED outsideOrder

\* for comment in raw_comments, entered when the posts are exhausted.
crawl_comment ==
    /\ gen.pc \in {"posts", "comments"}
    /\ gen.raw_posts = <<>>
    /\ gen.raw_comments # <<>>
    /\ \E cid \in {Head(gen.raw_comments)}, new \in BOOLEAN :
          yielded' = IF new THEN Append(yielded, Yielded("comment", gen.thread, cid))
                     ELSE yielded
    /\ gen' = [gen EXCEPT !.pc = "comments", !.raw_comments = Tail(@)]
    /\ UNCHANGED returned
    /\ UNCHANGED outsideOrder

\* The loops of the thread are exhausted: the next thread.
crawl_thread_done ==
    /\ gen.pc \in {"posts", "comments"}
    /\ gen.raw_posts = <<>>
    /\ gen.raw_comments = <<>>
    /\ gen' = [gen EXCEPT !.pc = "threads"]
    /\ UNCHANGED <<returned, yielded>>
    /\ UNCHANGED outsideOrder

\* The thread list is exhausted: the generator ends.
crawl_done ==
    /\ gen.pc = "threads"
    /\ gen.raw_threads = <<>>
    /\ gen' = [gen EXCEPT !.pc = "idle"]
    /\ UNCHANGED <<returned, yielded>>
    /\ UNCHANGED outsideOrder

InitOrder ==
    /\ gen = IdleGen
    /\ returned = NothingReturned
    /\ yielded = <<>>

NextOrder ==
    \/ crawl_threads
    \/ crawl_thread
    \/ crawl_post
    \/ crawl_comment
    \/ crawl_thread_done
    \/ crawl_done

\* The ids yielded in one layer, of one thread or of all.
IsKind(kind, tid) ==
    [i \in DOMAIN yielded |-> yielded[i].kind = kind /\ (tid = "any" \/ yielded[i].tid = tid)]
IdsOfKind(kind, tid) ==
    LET pick == {i \in DOMAIN yielded : IsKind(kind, tid)[i]}
        nth[n \in 0..Len(yielded)] ==
            IF n = 0 THEN <<>>
            ELSE IF n \in pick THEN Append(nth[n - 1], yielded[n].id) ELSE nth[n - 1]
    IN nth[Len(yielded)]
LayerRank(kind) == CASE kind = "thread" -> 1 [] kind = "post" -> 2 [] kind = "comment" -> 3

\* C25: within one pass a thread is yielded before any of its posts and each
\* of its posts before any of its comments, and the items of each layer are
\* yielded in the order the upstream returned them.
YieldedInOrder ==
    /\ \A i, j \in DOMAIN yielded :
          (i < j /\ yielded[i].tid = yielded[j].tid) =>
             LayerRank(yielded[i].kind) <= LayerRank(yielded[j].kind)
    /\ InOrderOf(IdsOfKind("thread", "any"), returned.threads)
    /\ gen.thread # "none" =>
          /\ InOrderOf(IdsOfKind("post", gen.thread), returned.posts)
          /\ InOrderOf(IdsOfKind("comment", gen.thread), returned.comments)

\* Two threads were yielded, and of the second two posts and two comments,
\* one from the post page and one from get_comments.
WitnessYieldedInOrder ==
    /\ Len(IdsOfKind("thread", "any")) = 2
    /\ Len(IdsOfKind("post", gen.thread)) = 2
    /\ Len(IdsOfKind("comment", gen.thread)) = 2
    /\ gen.pc = "threads"
    /\ gen.raw_threads = <<>>

(***************************************************************************)
(* Part 13.  EtaSleep and the requests of Spider.crawl                     *)
(*           src/src/util/tools.py, src/src/tieba/crawler.py               *)
(***************************************************************************)

\* Bounds: scan.query_cd in ticks of the clock, the clock, the pages.
QueryCd == 2
MaxTime == 12
MaxThreadPages == 2
MaxLaterPages == 2

RECURSIVE Repeat(_, _)
Repeat(s, n) == IF n = 0 THEN <<>> ELSE s \o Repeat(s, n - 1)

\* The steps of a pass over one thread: "async with self.eta" around each
\* get_threads; around get_posts of page 1 and, inside it, around get_posts
\* of each later page; around each get_comments.
spider_crawl(thread_pages, descend, later_pages, comment_pages) ==
    Repeat(<<"aenter", "get_threads", "aexit">>, thread_pages)
    \o (IF descend
        THEN <<"aenter", "get_posts">>
             \o Repeat(<<"aenter", "get_posts", "aexit">>, later_pages)
             \o <<"aexit">>
             \o Repeat(<<"aenter", "get_comments", "aexit">>, comment_pages)
        ELSE <<>>)

NoTiming == [prev_done |-> None, last_start |-> None, last_done |-> None]

\* Spider.crawl is called for a forum.
Spider_crawl ==
    /\ plan = <<>>
    /\ \E thread_pages \in 1..MaxThreadPages, descend \in BOOLEAN,
          later_pages \in 0..MaxLaterPages, comment_pages \in 0..1 :
             plan' = spider_crawl(thread_pages, descend, later_pages, comment_pages)
    /\ UNCHANGED <<clock, eta, holders, timing>>
    /\ UNCHANGED outsideEta

\* EtaSleep.__aenter__: sleep_async sleeps for self.remaining.
aenter ==
    /\ plan # <<>> /\ Head(plan) = "aenter"
    /\ clock' = max(clock, eta)
    /\ holders' = holders + 1
    /\ plan' = Tail(plan)
    /\ UNCHANGED <<eta, timing>>
    /\ UNCHANGED outsideEta

\* An upstream request, from its start to its completion.
upstream_request ==
    /\ plan # <<>> /\ Head(plan) \in {"get_threads", "get_posts", "get_comments"}
    /\ \E duration \in 0..1 :
          /\ clock + duration <= MaxTime
          /\ clock' = clock + duration
          /\ timing' = [prev_done |-> timing.last_done, last_start |-> clock,
                        last_done |-> clock + duration]
    /\ plan' = Tail(plan)
    /\ UNCHANGED <<eta, holders>>
    /\ UNCHANGED outsideEta

\* EtaSleep.__aexit__: refresh.
aexit ==
    /\ plan # <<>> /\ Head(plan) = "aexit"
    /\ eta' = clock + QueryCd
    /\ holders' = holders - 1
    /\ plan' = Tail(plan)
    /\ UNCHANGED <<clock, timing>>
    /\ UNCHANGED outsideEta

\* Time passes while the spider classifies and the crawler dispatches.
Elapse ==
    /\ clock < MaxTime
    /\ clock' = clock + 1
    /\ UNCHANGED <<eta, holders, plan, timing>>
    /\ UNCHANGED outsideEta

InitEta ==
    /\ clock = 0
    /\ eta = 0
    /\ holders = 0
    /\ plan = <<>>
    /\ timing = NoTiming

NextEta ==
    \/ Spider_crawl
    \/ aenter
    \/ upstream_request
    \/ aexit
    \/ Elapse

\* C26: of two consecutive requests of the spider the later starts at least
\* query_cd after the earlier completed, and the spider's EtaSleep is never
\* held by two acquisitions at once.
RequestsSpaced ==
    /\ holders <= 1
    /\ timing.prev_done # None => timing.last_start >= timing.prev_done + QueryCd

\* What holds instead: a request starts no earlier than query_cd after the
\* latest exit of an acquisition, and at most two acquisitions are held.
RequestsSpacedFromExit ==
    /\ holders <= 2
    /\ (plan # <<>> /\ Head(plan) \in {"get_threads", "get_posts", "get_comments"}) =>
          clock >= eta

(***************************************************************************)
(* Part 14.  Crawler.restart and Spider.update_config on the event loop    *)
(*           src/src/tieba/crawler.py, src/src/core/controller.py,         *)
(*           src/src/util/event.py                                         *)
(***************************************************************************)

\* Bounds on the broadcasts and on the tasks they may create.
MaxBroadcasts == 2
MaxTasks == 3

\* scan: the pagination parameters as one value, and query_cd.
ScanValues == [pages : {1, 2}, query_cd : {1, 2}]
TaskIds == 1..MaxTasks

\* No scan read yet.
NoScan == [pages |-> 0, query_cd |-> 0]

NoTask ==
    [state |-> "none", cancelled |-> FALSE, scan |-> NoScan, born |-> NoScan,
     restarted |-> FALSE]
NoRequest == [task |-> 0, scan |-> NoScan, cd |-> None, config |-> NoScan]

\* The callbacks of the loop: a listener wrapper of the n-th broadcast, or
\* the next step of a task.
Listener(fn, old, new, n) == [kind |-> fn, old |-> old, new |-> new, task |-> 0, n |-> n]
Step(id) == [kind |-> "step", old |-> NoScan, new |-> NoScan, task |-> id, n |-> 0]

\* asyncio.create_task(cls.crawl()): the task and its first step.
create_task(tasks, id, restarted) ==
    [tasks EXCEPT ![id] = [state |-> "ready", cancelled |-> FALSE, scan |-> NoScan,
                           born |-> cfg_scan, restarted |-> restarted]]

\* task.cancel(): a task waiting for a response is woken with
\* CancelledError; one ready to run finds it at its next step.
cancel(tasks, id) ==
    [tasks EXCEPT ![id].cancelled = TRUE,
                  ![id].state = IF @ = "waiting" THEN "ready" ELSE @]
cancel_wakeup(tasks, id) ==
    IF tasks[id].state = "waiting" THEN <<Step(id)>> ELSE <<>>

FreeIds == {id \in TaskIds : crawl_tasks[id].state = "none"}

\* Controller.update_config of a handler whose write succeeds: cls.config is
\* replaced and SystemConfigChange.broadcast gathers the listeners that are
\* registered now: Crawler.restart and, once a spider exists,
\* Spider.update_config.
SystemConfigChange_broadcast ==
    /\ broadcasts < MaxBroadcasts
    /\ \E new \in ScanValues :
          /\ cfg_scan' = new
          /\ loop' = loop \o <<Listener("restart", cfg_scan, new, broadcasts + 1)>>
                          \o (IF spider_cd # None
                              THEN <<Listener("update_config", cfg_scan, new, broadcasts + 1)>>
                              ELSE <<>>)
    /\ broadcasts' = broadcasts + 1
    /\ UNCHANGED <<spider_cd, crawl_tasks, cur_task, last_request>>
    /\ UNCHANGED outsideRestart

\* A variant of Crawler.restart that does not look at the change.
Crawler_restart_always ==
    /\ loop # <<>> /\ Head(loop).kind = "restart"
    /\ IF cur_task # 0 /\ FreeIds # {}
       THEN \E id \in {CHOOSE id \in FreeIds : \A other \in FreeIds : id <= other} :
               /\ crawl_tasks' = create_task(cancel(crawl_tasks, cur_task), id, TRUE)
               /\ cur_task' = id
               /\ loop' = Tail(loop) \o cancel_wakeup(crawl_tasks, cur_task) \o <<Step(id)>>
       ELSE /\ loop' = Tail(loop)
            /\ UNCHANGED <<crawl_tasks, cur_task>>
    /\ UNCHANGED <<cfg_scan, spider_cd, broadcasts, last_request>>
    /\ UNCHANGED outsideRestart

\* Crawler.restart, run by the loop.
Crawler_restart ==
    /\ loop # <<>> /\ Head(loop).kind = "restart"
    /\ IF cur_task # 0 /\ Head(loop).old # Head(loop).new /\ FreeIds # {}
       THEN \E id \in {CHOOSE id \in FreeIds : \A other \in FreeIds : id <= other} :
               /\ crawl_tasks' = create_task(cancel(crawl_tasks, cur_task), id, TRUE)
               /\ cur_task' = id
               /\ loop' = Tail(loop) \o cancel_wakeup(crawl_tasks, cur_task) \o <<Step(id)>>
       ELSE /\ loop' = Tail(loop)
            /\ UNCHANGED <<crawl_tasks, cur_task>>
    /\ UNCHANGED <<cfg_scan, spider_cd, broadcasts, last_request>>
    /\ UNCHANGED outsideRestart

\* Spider.update_config, run by the loop.
Spider_update_config ==
    /\ loop # <<>> /\ Head(loop).kind = "update_config"
    /\ spider_cd' = IF Head(loop).old.query_cd # Head(loop).new.query_cd
                    THEN Head(loop).new.query_cd ELSE spider_cd
    /\ loop' = Tail(loop)
    /\ UNCHANGED <<cfg_scan, crawl_tasks, cur_task, broadcasts, last_request>>
    /\ UNCHANGED outsideRestart

\* A step of a task on Crawler.crawl up to its next await of a response: a
\* cancelled task ends; otherwise get_spider creates the spider if there is
\* none, Spider.crawl reads Controller.config.scan when a pass begins, and a
\* request goes out behind self.eta.
Crawler_crawl_step ==
    /\ loop # <<>> /\ Head(loop).kind = "step"
    /\ \E id \in {Head(loop).task} :
          IF crawl_tasks[id].cancelled
          THEN /\ crawl_tasks' = [crawl_tasks EXCEPT ![id].state = "ended"]
               /\ UNCHANGED <<spider_cd, last_request>>
          ELSE \E begins \in {TRUE, crawl_tasks[id].scan = NoScan} :
                  \E used \in {IF begins THEN cfg_scan ELSE crawl_tasks[id].scan},
                     cd \in {IF spider_cd = None THEN cfg_scan.query_cd ELSE spider_cd} :
                     /\ spider_cd' = cd
                     /\ crawl_tasks' = [crawl_tasks EXCEPT ![id].state = "waiting",
                                                          ![id].scan = used]
                     /\ last_request' = [task |-> id, scan |-> used, cd |-> cd,
                                         config |-> cfg_scan]
    /\ loop' = Tail(loop)
    /\ UNCHANGED <<cfg_scan, cur_task, broadcasts>>
    /\ UNCHANGED outsideRestart

\* The response a task waits for arrives: its next step is ready.
response ==
    /\ \E id \in TaskIds :
          /\ crawl_tasks[id].state = "waiting"
          /\ crawl_tasks' = [crawl_tasks EXCEPT ![id].state = "ready"]
          /\ loop' = Append(loop, Step(id))
    /\ UNCHANGED <<cfg_scan, spider_cd, cur_task, broadcasts, last_request>>
    /\ UNCHANGED outsideRestart

\* With or without a task created by Crawler.start_or_stop.
InitRestart(with_task) ==
    /\ cfg_scan = [pages |-> 1, query_cd |-> 1]
    /\ spider_cd = None
    /\ \E has \in with_task :
          /\ cur_task = IF has THEN 1 ELSE 0
          /\ crawl_tasks = [id \in TaskIds |->
                               IF has /\ id = 1
                               THEN [state |-> "ready", cancelled |-> FALSE, scan |-> NoScan,
                                     born |-> [pages |-> 1, query_cd |-> 1],
                                     restarted |-> FALSE]
                               ELSE NoTask]
          /\ loop = IF has THEN <<Step(1)>> ELSE <<>>
    /\ broadcasts = 0
    /\ last_request = NoRequest

NextRestart ==
    \/ SystemConfigChange_broadcast
    \/ Crawler_restart
    \/ Spider_update_config
    \/ Crawler_crawl_step
    \/ response

LiveTasks == {id \in TaskIds : crawl_tasks[id].state \in {"ready", "waiting"}
                          /\ ~crawl_tasks[id].cancelled}

\* The step in which the loop runs Crawler.restart.
RestartRuns ==
    /\ loop # <<>> /\ Head(loop).kind = "restart"
    /\ loop' = <<>> \/ Head(loop') # Head(loop)

\* C27: Crawler.restart, run for a broadcast with old.scan # new.scan while a
\* task exists, cancels that task and starts exactly one new task, and does
\* nothing otherwise; no other step changes the task; and while the
\* configuration is the one the new task was started for, every request of
\* the new task uses its scan parameters and its query_cd.
RestartOnScanChange ==
    /\ [](/\ LiveTasks = {cur_task} \ {0}
          /\ (/\ last_request.task # 0
              /\ crawl_tasks[last_request.task].restarted
              /\ last_request.config = crawl_tasks[last_request.task].born) =>
                 /\ last_request.scan = last_request.config
                 /\ last_request.cd = last_request.config.query_cd)
    /\ [][IF RestartRuns /\ cur_task # 0 /\ Head(loop).old # Head(loop).new
          THEN /\ cur_task' \notin {0, cur_task}
               /\ crawl_tasks[cur_task'].state = "none"
               /\ crawl_tasks'[cur_task].cancelled
               /\ \A id \in TaskIds \ {cur_task, cur_task'} : crawl_tasks'[id] = crawl_tasks[id]
          ELSE /\ cur_task' = cur_task
               /\ \A id \in TaskIds : /\ crawl_tasks'[id].cancelled = crawl_tasks[id].cancelled
                                      /\ crawl_tasks[id].state = "none"
                                            => crawl_tasks'[id].state = "none"]_restartVars

\* The task of the start was replaced on a change of scan, and the new task
\* has made a request after the spider took the new query_cd.
WitnessRestartOnScanChange ==
    /\ cur_task = 2
    /\ crawl_tasks[1].state = "ended"
    /\ last_request.task = 2
    /\ last_request.cd = 2
    /\ last_request.scan = [pages |-> 2, query_cd |-> 2]
    /\ broadcasts = 1

(***************************************************************************)
(* Part 15: failures inside a pass.  Crawler.crawl loops for ever over one *)
(* forum whose threads all need their posts and comments; every upstream   *)
(* request and every storage call may fail.                                *)
(***************************************************************************)

\* scan.thread_page_forward, post_page_forward and post_page_backward
ThreadPageForward == 2
PostPageForward == 1
PostPageBackward == 1
\* the largest total_page a thread reports
MaxTotalPage == 2

\* What a call of client.get_threads or client.get_comments can do: return,
\* raise AiotiebaError (429 or another code), raise something else.
ClientOutcomes == {"ok", "limited", "aiotieba_error", "raises"}

\* What a call behind TiebaBrowser.get_posts can do: answer with a page,
\* fail in the session (raises), answer with a status other than 200, with
\* a body that is no JSON, with an error_code, or with JSON that lacks a
\* field parse_data reads.
BrowserOutcomes == {"ok", "raises", "non200", "not_json", "error_code", "invalid"}

\* GetPostData() with its defaults, and the None that a function returns
\* when exception_logger swallowed the exception raised in its body.
GetPostData == [none |-> FALSE, posts |-> <<>>, total_page |-> 0]
NoData == [none |-> TRUE, posts |-> <<>>, total_page |-> 0]

\* The position after an exception raised inside a with exception_logger
\* block: the statement after the block, unless the exception leaves it.
after_exception(after) == IF exception_logger(TRUE) THEN "ended" ELSE after

\* TiebaBrowser.parse_data
parse_data(tid, pn, result, total) ==
    IF result = "error_code" THEN [data |-> GetPostData, logged |-> {}]
    ELSE IF result = "invalid"
         THEN [data |-> GetPostData, logged |-> {"parse_data"}]
         ELSE [data |-> [none |-> FALSE, posts |-> <<tid * 10 + pn>>,
                         total_page |-> total],
               logged |-> {}]

\* TiebaBrowser.get_posts
browser_get_posts(tid, pn, result, total) ==
    IF result \in {"raises", "not_json"}
    THEN [data |-> NoData, logged |-> {"get_posts"}]
    ELSE IF result = "non200" THEN [data |-> GetPostData, logged |-> {}]
    ELSE parse_data(tid, pn, result, total)

NoAttempt == [kind |-> "none", pn |-> 0, outcome |-> "none"]

\* An exception leaves Spider.crawl and reaches the exception_logger of
\* Crawler.crawl: the forum loop is left, the level selection is skipped.
PassRaises(logged) ==
    /\ at' = after_exception("save")
    /\ errors' = errors \cup logged \cup {"crawl"}
    /\ ended' = "exception"

\* for i in range(1, scan.thread_page_forward + 1): get_threads(forum, pn=i)
Spider_get_threads ==
    /\ at = "get_threads"
    /\ \E result \in ClientOutcomes :
          /\ attempt' = [kind |-> "get_threads", pn |-> page, outcome |-> result]
          /\ got_threads' = IF result = "ok" THEN Append(got_threads, page)
                            ELSE got_threads
          /\ errors' = IF result = "ok" THEN errors
                       ELSE errors \cup {"get_threads"}
    /\ IF page = ThreadPageForward
       THEN at' = "thread" /\ tidx' = 1 /\ page' = 1
       ELSE at' = at /\ tidx' = tidx /\ page' = page + 1
    /\ UNCHANGED <<got_posts, pidx, later, ended>>
    /\ UNCHANGED outsidePass

\* for thread in raw_threads: updated = await check_and_update_cache(thread)
Spider_thread ==
    /\ at = "thread"
    /\ IF tidx > Len(got_threads)
       THEN /\ at' = "levels"
            /\ UNCHANGED <<errors, ended, got_posts, later>>
       ELSE \E stored \in BOOLEAN :
              IF stored
              THEN /\ at' = "get_posts"
                   /\ got_posts' = <<>>
                   /\ later' = <<>>
                   /\ UNCHANGED <<errors, ended>>
              ELSE /\ PassRaises({})
                   /\ UNCHANGED <<got_posts, later>>
    /\ UNCHANGED <<page, got_threads, tidx, pidx, attempt>>
    /\ UNCHANGED outsidePass

\* data = await self.browser.get_posts(thread.tid, pn); data.posts,
\* data.total_page
Spider_get_posts ==
    /\ at = "get_posts"
    /\ \E result \in BrowserOutcomes, total \in 1..MaxTotalPage :
        LET answer == browser_get_posts(got_threads[tidx], page, result, total)
            rest == IF page = 1
                    THEN post_pages(PostPageForward, PostPageBackward,
                                    answer.data.total_page)
                    ELSE Tail(later)
        IN  /\ attempt' = [kind |-> "get_posts", pn |-> page, outcome |-> result]
            /\ IF answer.data.none
               THEN /\ PassRaises(answer.logged)
                    /\ UNCHANGED <<got_posts, later, page, pidx>>
               ELSE /\ errors' = errors \cup answer.logged
                    /\ got_posts' = got_posts \o answer.data.posts
                    /\ later' = rest
                    /\ IF rest = <<>>
                       THEN at' = "post" /\ pidx' = 1 /\ page' = 1
                       ELSE at' = at /\ pidx' = pidx /\ page' = Head(rest)
                    /\ ended' = ended
    /\ UNCHANGED <<got_threads, tidx>>
    /\ UNCHANGED outsidePass

\* for post in raw_posts: updated = await check_and_update_cache(post)
Spider_post ==
    /\ at = "post"
    /\ IF pidx > Len(got_posts)
       THEN /\ at' = "thread"
            /\ tidx' = tidx + 1
            /\ UNCHANGED <<errors, ended>>
       ELSE /\ tidx' = tidx
            /\ \E stored \in BOOLEAN :
                 IF stored
                 THEN at' = "get_comments" /\ UNCHANGED <<errors, ended>>
                 ELSE PassRaises({})
    /\ UNCHANGED <<page, got_threads, got_posts, pidx, later, attempt>>
    /\ UNCHANGED outsidePass

\* comments = await self.client.get_comments(post.tid, post.pid, pn)
Spider_get_comments ==
    /\ at = "get_comments"
    /\ \E result \in ClientOutcomes :
          /\ attempt' = [kind |-> "get_comments", pn |-> got_posts[pidx],
                     outcome |-> result]
          /\ errors' = IF result = "ok" THEN errors
                       ELSE errors \cup {"get_comments"}
    /\ at' = "post"
    /\ pidx' = pidx + 1
    /\ UNCHANGED <<page, got_threads, tidx, got_posts, later, ended>>
    /\ UNCHANGED outsidePass

\* The level selection that closes the forum loop: the select may raise.
Crawler_levels ==
    /\ at = "levels"
    /\ \E stored \in BOOLEAN :
          IF stored
          THEN at' = "save" /\ ended' = "normal" /\ errors' = errors
          ELSE PassRaises({})
    /\ UNCHANGED <<page, got_threads, tidx, got_posts, pidx, later, attempt>>
    /\ UNCHANGED outsidePass

\* with exception_logger(...): save_items(users); save_items(levels)
Crawler_save ==
    /\ at = "save"
    /\ \E stored \in BOOLEAN :
          errors' = IF stored THEN errors ELSE errors \cup {"save"}
    /\ at' = after_exception("sleep")
    /\ UNCHANGED <<page, got_threads, tidx, got_posts, pidx, later, attempt, ended>>
    /\ UNCHANGED outsidePass

\* await asyncio.sleep(scan.loop_cd) returns and while True starts over.
Crawler_sleep ==
    /\ at = "sleep"
    /\ at' = "get_threads"
    /\ page' = 1
    /\ got_threads' = <<>>
    /\ tidx' = 1
    /\ got_posts' = <<>>
    /\ pidx' = 1
    /\ later' = <<>>
    /\ errors' = {}
    /\ attempt' = NoAttempt
    /\ UNCHANGED ended
    /\ UNCHANGED outsidePass

\* Crawler.task.cancel() while the task waits at any of its awaits.
Task_cancel ==
    /\ at \notin {"cancelled", "ended"}
    /\ at' = "cancelled"
    /\ UNCHANGED <<page, got_threads, tidx, got_posts, pidx, later, errors, attempt, ended>>
    /\ UNCHANGED outsidePass

InitPass ==
    /\ at = "get_threads"
    /\ page = 1
    /\ got_threads = <<>>
    /\ tidx = 1
    /\ got_posts = <<>>
    /\ pidx = 1
    /\ later = <<>>
    /\ errors = {}
    /\ attempt = NoAttempt
    /\ ended = "none"

\* The steps of the crawl task itself.
Crawler_crawl ==
    \/ Spider_get_threads
    \/ Spider_thread
    \/ Spider_get_posts
    \/ Spider_post
    \/ Spider_get_comments
    \/ Crawler_levels
    \/ Crawler_save
    \/ Crawler_sleep

NextPass ==
    \/ Spider_get_threads
    \/ Spider_thread
    \/ Spider_get_posts
    \/ Spider_post
    \/ Spider_get_comments
    \/ Crawler_levels
    \/ Crawler_save
    \/ Crawler_sleep
    \/ Task_cancel

\* A request of the pass has just failed.
RequestFailed == attempt' # attempt /\ attempt'.outcome # "ok"

\* C28: a failed upstream request (get_threads, get_posts of any page,
\* get_comments; raised, non-200 or invalid) is followed by the rest of the
\* same pass: it never takes the task out of the forum loop.
FailedRequestContinues ==
    [][RequestFailed => at' \in {"get_threads", "thread", "get_posts", "post"}]_passVars

\* What the code does keep: a failed get_threads or get_comments, and a
\* get_posts answered with a non-200 status, an error_code or missing
\* fields, are followed by the rest of the pass.
CaughtFailureContinues ==
    [][(RequestFailed /\ ~(attempt'.kind = "get_posts"
                           /\ attempt'.outcome \in {"raises", "not_json"}))
        => at' \in {"get_threads", "thread", "get_posts", "post"}]_passVars

\* A get_posts whose session or body decoding raised: the pass is over.
WitnessFailedRequestEndsPass ==
    /\ attempt.kind = "get_posts"
    /\ attempt.outcome \in {"raises", "not_json"}
    /\ at = "save"
    /\ ended = "exception"
    /\ tidx < Len(got_threads)

\* C29: Crawler.crawl never ends on its own.  From wherever the task
\* stands, the pass in progress comes to its end, normally or by an
\* exception (a failed request, a storage failure in the classifier or in
\* a save), the task sleeps scan.loop_cd and then starts another pass;
\* only cancellation stops this.
NeverEndsOnItsOwn ==
    /\ [](at # "ended")
    /\ (at # "cancelled") ~> (at = "sleep" \/ at = "cancelled")
    /\ (at = "sleep") ~> (at = "get_threads" \/ at = "cancelled")

\* A new pass has begun after a pass that an exception ended.
WitnessNeverEndsOnItsOwn ==
    /\ at = "get_threads"
    /\ attempt = NoAttempt
    /\ ended = "exception"

(***************************************************************************)
(* Part 16: User objects and their DispatchContent listeners.              *)
(*          src/src/user/user.py, src/src/user/manager.py                  *)
(***************************************************************************)
MaxObjects == 4
ObjIds == 1..MaxObjects
NoObj == [username |-> "none", valid |-> FALSE]
NoBroadcast == [to |-> {}, users |-> {}]

\* The User objects that UserManager.users holds.
InManager(table) == {table[name] : name \in Usernames} \ {0}

\* User.create: __init__ registers self.process on DispatchContent before
\* anything else, update_config(initialize=True) follows, and valid is set
\* only when nothing has raised.
User_create(objs, lst, id, name, raises) ==
    [objs |-> [objs EXCEPT ![id] = [username |-> name, valid |-> ~raises]],
     listeners |-> Append(lst, id)]

\* User.stop: nothing is done for a user that is not valid.
User_stop(objs, lst, id) ==
    IF objs[id].valid
    THEN [objs |-> [objs EXCEPT ![id].valid = FALSE],
          listeners |-> SelectSeq(lst, LAMBDA x : x # id)]
    ELSE [objs |-> objs, listeners |-> lst]

\* UserManager.new_user(config, force); User.create may raise.
UserManager_new_user ==
    /\ creations < MaxObjects
    /\ \E name \in Usernames, force \in BOOLEAN, raises \in BOOLEAN :
        LET popped == IF manager_users[name] # 0 /\ force
                      THEN [manager_users EXCEPT ![name] = 0]
                      ELSE manager_users
            made == User_create(user_objs, dispatch, creations + 1, name, raises)
        IN  /\ manager_users[name] = 0 \/ force
            /\ user_objs' = made.objs
            /\ dispatch' = made.listeners
            /\ manager_users' = IF raises THEN popped
                                ELSE [popped EXCEPT ![name] = creations + 1]
    /\ creations' = creations + 1
    /\ UNCHANGED received
    /\ UNCHANGED outsideWorker

\* UserManager.delete_user(username): user.delete() stops the user.
UserManager_delete_user ==
    /\ \E name \in Usernames :
        /\ manager_users[name] # 0
        /\ LET stopped == User_stop(user_objs, dispatch, manager_users[name])
           IN  /\ user_objs' = stopped.objs
               /\ dispatch' = stopped.listeners
        /\ manager_users' = [manager_users EXCEPT ![name] = 0]
    /\ UNCHANGED <<creations, received>>
    /\ UNCHANGED outsideWorker

\* UserManager.clear_users: every user of the table is stopped.
UserManager_clear_users ==
    /\ InManager(manager_users) # {}
    /\ LET going == {id \in InManager(manager_users) : user_objs[id].valid}
       IN  /\ user_objs' = [id \in ObjIds |->
                              IF id \in going
                              THEN [user_objs[id] EXCEPT !.valid = FALSE]
                              ELSE user_objs[id]]
           /\ dispatch' = SelectSeq(dispatch, LAMBDA x : x \notin going)
    /\ manager_users' = [name \in Usernames |-> 0]
    /\ UNCHANGED <<creations, received>>
    /\ UNCHANGED outsideWorker

\* Controller.DispatchContent.broadcast(content): every listener of the
\* list is called.
DispatchContent_broadcast ==
    /\ received' = [to |-> Range(dispatch), users |-> InManager(manager_users)]
    /\ received' # received
    /\ UNCHANGED <<user_objs, manager_users, dispatch, creations>>
    /\ UNCHANGED outsideWorker

InitWorker ==
    /\ user_objs = [id \in ObjIds |-> NoObj]
    /\ manager_users = [name \in Usernames |-> 0]
    /\ dispatch = <<>>
    /\ creations = 0
    /\ received = NoBroadcast

NextWorker ==
    \/ UserManager_new_user
    \/ UserManager_delete_user
    \/ UserManager_clear_users
    \/ DispatchContent_broadcast

\* C30: between handlers the listeners of DispatchContent are exactly the
\* process callbacks of the User objects in UserManager.users, one each, so
\* that a broadcast reaches those users and nobody else: no user that was
\* deleted, replaced or cleared, and none whose creation failed.
ListenersAreUsers ==
    /\ Range(dispatch) = InManager(manager_users)
    /\ Len(dispatch) = Cardinality(InManager(manager_users))
    /\ received.to = received.users

\* What the code does keep: every user of the table is valid and listens
\* exactly once, and a user that delete_user or clear_users has stopped
\* listens no more.
UsersAreListeners ==
    /\ [](/\ \A id \in InManager(manager_users) :
               /\ user_objs[id].valid
               /\ Len(SelectSeq(dispatch, LAMBDA x : x = id)) = 1
          /\ received.users \subseteq received.to)
    /\ [][\A id \in ObjIds :
            (user_objs[id].valid /\ ~user_objs'[id].valid)
                => id \notin Range(dispatch')]_workerVars

\* A broadcast has reached a user that new_user(force=True) replaced.
WitnessReplacedUserReceives ==
    \E id \in received.to \ received.users :
        /\ user_objs[id].valid
        /\ manager_users[user_objs[id].username] \notin {0, id}

\* A broadcast has reached a user whose creation failed.
WitnessFailedUserReceives ==
    \E id \in received.to \ received.users : ~user_objs[id].valid

(***************************************************************************)
(* Part 17: the calls of User.process that one DispatchContent broadcast   *)
(*          after another starts, over a restart of the crawl task.        *)
(*          src/src/tieba/crawler.py, src/src/util/event.py,               *)
(*          src/src/user/user.py, src/src/db/interface.py                  *)
(***************************************************************************)
MaxItems == 3
MaxCrawlTasks == 2
Workers == {"w1", "w2"}
ItemIds == 1..MaxItems
CrawlTaskIds == 1..MaxCrawlTasks

\* The calls of User.process of a user that have begun and not returned.
Active(w) == {n \in ItemIds : invocations[w][n] \in {"running", "unwinding"}}

\* The items broadcast so far.
Broadcast == {n \in ItemIds : item_task[n] # 0}

\* async for content in spider.crawl(...): await DispatchContent.broadcast(
\* content).  gather wraps the listener of every user in a task of its own.
Crawler_dispatch ==
    /\ \E t \in CrawlTaskIds, n \in ItemIds :
        /\ pass_tasks[t] = "crawling"
        /\ n = Cardinality(Broadcast) + 1
        /\ pass_tasks' = [pass_tasks EXCEPT ![t] = "broadcasting"]
        /\ item_task' = [item_task EXCEPT ![n] = t]
        /\ invocations' = [w \in Workers |-> [invocations[w] EXCEPT ![n] = "scheduled"]]
    /\ UNCHANGED <<pass_cur, cancelling, process_started>>
    /\ UNCHANGED outsideSeq

\* The wrapper async_fn of a user runs: User.process begins, and later
\* returns.
User_process_step ==
    /\ \E w \in Workers, n \in ItemIds :
        /\ n \notin cancelling
        /\ \/ /\ invocations[w][n] = "scheduled"
              /\ invocations' = [invocations EXCEPT ![w][n] = "running"]
              /\ process_started' = [process_started EXCEPT ![w] = Append(@, n)]
           \/ /\ invocations[w][n] = "running"
              /\ invocations' = [invocations EXCEPT ![w][n] = "returned"]
              /\ UNCHANGED process_started
    /\ UNCHANGED <<pass_tasks, pass_cur, item_task, cancelling>>
    /\ UNCHANGED outsideSeq

\* The gather is done: broadcast returns to the crawl task, which goes on.
AsyncEvent_broadcast_return ==
    /\ \E t \in CrawlTaskIds :
        /\ pass_tasks[t] = "broadcasting"
        /\ \A n \in ItemIds, w \in Workers :
              item_task[n] = t => invocations[w][n] \in {"none", "returned"}
        /\ pass_tasks' = [pass_tasks EXCEPT ![t] = "crawling"]
    /\ UNCHANGED <<pass_cur, item_task, invocations, cancelling, process_started>>
    /\ UNCHANGED outsideSeq

\* Crawler.restart with a changed scan: cls.task.cancel() and, at once,
\* cls.task = asyncio.create_task(cls.crawl()).  A task cancelled while it
\* waits for a gather has the gather cancel the listeners' tasks.
restart ==
    /\ pass_cur # 0
    /\ pass_cur < MaxCrawlTasks
    /\ pass_tasks[pass_cur] \in {"crawling", "broadcasting"}
    /\ pass_tasks' = [pass_tasks EXCEPT ![pass_cur] = "cancelled",
                                        ![pass_cur + 1] = "crawling"]
    /\ pass_cur' = pass_cur + 1
    /\ cancelling' = cancelling \cup
          {n \in ItemIds : item_task[n] = pass_cur
                           /\ \E w \in Workers :
                                 invocations[w][n] \in {"scheduled", "running"}}
    /\ UNCHANGED <<item_task, invocations, process_started>>
    /\ UNCHANGED outsideSeq

\* CancelledError reaches a listener's task at the await it waits in.  One
\* that has not begun never runs; one inside Database.get_session still
\* awaits session.close() in the finally clause before it ends.
User_process_cancelled ==
    /\ \E w \in Workers, n \in cancelling :
        \/ /\ invocations[w][n] = "scheduled"
           /\ invocations' = [invocations EXCEPT ![w][n] = "returned"]
        \/ /\ invocations[w][n] = "running"
           /\ \E in_session \in BOOLEAN :
                 invocations' = [invocations EXCEPT ![w][n] =
                                    IF in_session THEN "unwinding" ELSE "returned"]
        \/ /\ invocations[w][n] = "unwinding"
           /\ invocations' = [invocations EXCEPT ![w][n] = "returned"]
    /\ UNCHANGED <<pass_tasks, pass_cur, item_task, cancelling, process_started>>
    /\ UNCHANGED outsideSeq

\* Crawler.start_or_stop has created the first task.
InitSeq ==
    /\ pass_tasks = [t \in CrawlTaskIds |-> IF t = 1 THEN "crawling" ELSE "none"]
    /\ pass_cur = 1
    /\ item_task = [n \in ItemIds |-> 0]
    /\ invocations = [w \in Workers |-> [n \in ItemIds |-> "none"]]
    /\ cancelling = {}
    /\ process_started = [w \in Workers |-> <<>>]

NextSeq ==
    \/ Crawler_dispatch
    \/ User_process_step
    \/ AsyncEvent_broadcast_return
    \/ restart
    \/ User_process_cancelled

\* C32: for every user the calls of User.process never overlap and begin in
\* the order in which the crawler yielded the items, also across a restart
\* of the crawl task.
ProcessSequential ==
    \A w \in Workers :
        /\ Cardinality(Active(w)) <= 1
        /\ \A i, j \in DOMAIN process_started[w] :
              i < j => process_started[w][i] < process_started[w][j]

\* What the code does keep: among the calls of a user at most one belongs to
\* a task that has not been cancelled, every other call that has not
\* returned is unwinding after its cancellation, and the calls begin in the
\* order of the items.
ProcessSequentialPerTask ==
    \A w \in Workers :
        /\ Cardinality({n \in Active(w) : n \notin cancelling}) <= 1
        /\ \A n \in Active(w) :
              n \in cancelling => item_task[n] # pass_cur
        /\ \A n \in Active(w) :
              item_task[n] # pass_cur => n \in cancelling
        /\ \A i, j \in DOMAIN process_started[w] :
              i < j => process_started[w][i] < process_started[w][j]

\* The call for an item of the cancelled task is still unwinding while the
\* same user processes an item of the new task.
WitnessProcessOverlaps ==
    \E w \in Workers, n, k \in ItemIds :
        /\ invocations[w][n] = "unwinding"
        /\ invocations[w][k] = "running"
        /\ item_task[n] # item_task[k]

(***************************************************************************)
(* Part 18: Crawler.update_needs over users with any forum name, rule list *)
(*          and layer flags.  src/src/tieba/crawler.py                     *)
(***************************************************************************)
\* UserManager.users in the order of the dict.
WorkerOrder == <<"n1", "n2">>
WorkerNames == {WorkerOrder[i] : i \in DOMAIN WorkerOrder}

\* forum.fname: unset, or the name of a forum.
ForumNames == {"bar", "baz"}
Fnames == {""} \cup ForumNames

\* thread, post and comment of a forum: nothing, threads only, or posts and
\* comments only.
LayerFlags ==
    {<<FALSE, FALSE, FALSE>>, <<TRUE, FALSE, FALSE>>, <<FALSE, TRUE, TRUE>>}

\* What update_needs reads of a user: enable, whether config.rules is not
\* empty, forum.fname and the three layer flags.
WorkerConfigs ==
    {[enable |-> enable, has_rules |-> has_rules, fname |-> fname,
      thread |-> layers[1], post |-> layers[2], comment |-> layers[3]] :
     enable \in BOOLEAN, has_rules \in BOOLEAN, fname \in Fnames,
     layers \in LayerFlags}

NoWorker ==
    [enable |-> FALSE, has_rules |-> FALSE, fname |-> "none",
     thread |-> FALSE, post |-> FALSE, comment |-> FALSE]

\* new_needs.get(fname, CrawlNeed.empty())
need_get(table, fname) == IF fname \in DOMAIN table THEN table[fname] ELSE empty

\* table[fname] = value
need_put(table, fname, value) ==
    [f \in DOMAIN table \cup {fname} |-> IF f = fname THEN value ELSE table[f]]

\* A variant that counts users without a rule as well.
RECURSIVE collect_needs_without_rules(_, _, _)
collect_needs_without_rules(cfgs, i, table) ==
    IF i > Len(WorkerOrder)
    THEN table
    ELSE LET user == cfgs[WorkerOrder[i]]
         IN  IF user # NoWorker /\ user.enable /\ user.fname # ""
             THEN collect_needs_without_rules(cfgs, i + 1,
                      need_put(table, user.fname,
                               add(need_get(table, user.fname),
                                   [thread |-> user.thread, post |-> user.post,
                                    comment |-> user.comment])))
             ELSE collect_needs_without_rules(cfgs, i + 1, table)

\* Crawler.update_needs, the loop over UserManager.users.values().
RECURSIVE collect_needs(_, _, _)
collect_needs(cfgs, i, table) ==
    IF i > Len(WorkerOrder)
    THEN table
    ELSE LET user == cfgs[WorkerOrder[i]]
         IN  IF user # NoWorker /\ user.enable /\ user.has_rules /\ user.fname # ""
             THEN collect_needs(cfgs, i + 1,
                      need_put(table, user.fname,
                               add(need_get(table, user.fname),
                                   [thread |-> user.thread, post |-> user.post,
                                    comment |-> user.comment])))
             ELSE collect_needs(cfgs, i + 1, table)

\* Crawler.update_needs, the loop that deletes the empty needs.
drop_empty(table) ==
    [f \in {g \in DOMAIN table : ~is_empty(table[g])} |-> table[f]]

\* Crawler.update_needs: Crawler.needs when it returns.
Crawler_needs_after(cfgs, current) ==
    LET computed == drop_empty(collect_needs(cfgs, 1, <<>>))
    IN  IF current # computed THEN computed ELSE current

\* UserManager.update_config and delete_user broadcast an event on which
\* Crawler.update_needs listens; UserManager.new_user broadcasts none, and
\* at most one such change is outstanding.
UserManager_change ==
    /\ \E name \in WorkerNames, cfg \in WorkerConfigs \cup {NoWorker},
          announced \in BOOLEAN :
        /\ cfg # worker_cfgs[name]
        /\ announced \/ needs_fresh
        /\ worker_cfgs' = [worker_cfgs EXCEPT ![name] = cfg]
        /\ needs_fresh' = announced
        /\ crawler_needs' = IF announced
                            THEN Crawler_needs_after(worker_cfgs', crawler_needs)
                            ELSE crawler_needs
    /\ UNCHANGED outsideNeed

\* Crawler.update_needs run on UserChange (load_users).
Crawler_update_needs ==
    /\ ~needs_fresh
    /\ crawler_needs' = Crawler_needs_after(worker_cfgs, crawler_needs)
    /\ needs_fresh' = TRUE
    /\ UNCHANGED worker_cfgs
    /\ UNCHANGED outsideNeed

InitNeed ==
    /\ worker_cfgs = [name \in WorkerNames |-> NoWorker]
    /\ crawler_needs = <<>>
    /\ needs_fresh = TRUE

NextNeed ==
    \/ UserManager_change
    \/ Crawler_update_needs

\* The enabled users with at least one rule whose forum is f.
Contributors(f) ==
    {name \in WorkerNames :
        /\ worker_cfgs[name] # NoWorker
        /\ worker_cfgs[name].enable
        /\ worker_cfgs[name].has_rules
        /\ worker_cfgs[name].fname = f}

\* The layer-wise OR of their flags.
OrOfFlags(f) ==
    [thread |-> \E name \in Contributors(f) : worker_cfgs[name].thread,
     post |-> \E name \in Contributors(f) : worker_cfgs[name].post,
     comment |-> \E name \in Contributors(f) : worker_cfgs[name].comment]

\* C33: once update_needs has returned, a forum is a key of Crawler.needs
\* exactly when some enabled user with that forum and at least one rule has a
\* layer switched on, and its need is the layer-wise OR of the flags of all
\* those users.
NeedsAreOrOfUsers ==
    needs_fresh =>
        /\ DOMAIN crawler_needs \subseteq ForumNames
        /\ \A f \in ForumNames :
              /\ f \in DOMAIN crawler_needs
                    <=> (OrOfFlags(f).thread \/ OrOfFlags(f).post \/ OrOfFlags(f).comment)
              /\ f \in DOMAIN crawler_needs => crawler_needs[f] = OrOfFlags(f)

\* Two users of one forum with different layers, next to users that do not
\* count: the need of the forum is the OR of the two.
WitnessNeedsAreOrOfUsers ==
    /\ needs_fresh
    /\ worker_cfgs["n1"] = [enable |-> TRUE, has_rules |-> TRUE, fname |-> "bar",
                            thread |-> TRUE, post |-> FALSE, comment |-> FALSE]
    /\ worker_cfgs["n2"] = [enable |-> TRUE, has_rules |-> TRUE, fname |-> "bar",
                            thread |-> FALSE, post |-> TRUE, comment |-> TRUE]
    /\ crawler_needs = [f \in {"bar"} |-> [thread |-> TRUE, post |-> TRUE, comment |-> TRUE]]

(***************************************************************************)
(* Part 19.  Logic expressions of a rule and the check of its conditions   *)
(*           src/src/core/config.py, src/src/rule/condition.py,            *)
(*           src/src/rule/rule_set.py                                      *)
(***************************************************************************)

\* The condition numbers an expression may name are 0 .. MaxIndex.
MaxIndex == 2
Indices == 0 .. MaxIndex

\* The nodes validate_expression lets through: a condition number, not,
\* and/or over two operands.
Index(i) == [op |-> "const", value |-> i, values |-> <<>>]
UnaryOp(e) == [op |-> "not", value |-> 0, values |-> <<e>>]
BoolOp(op, a, b) == [op |-> op, value |-> 0, values |-> <<a, b>>]
NoLogic == [op |-> "none", value |-> 0, values |-> <<>>]

Operands(S) == S \cup {UnaryOp(e) : e \in S}
BoolOps(S) == {BoolOp(op, a, b) : op \in {"and", "or"}, a \in S, b \in S}

\* (0 and not 1), (not 0 or 2), ...
Literals == Operands({Index(i) : i \in Indices})
FlatExpressions == Literals \cup BoolOps(Literals)
\* ((0 and 1) or 2), not (0 or 1), ...
Expressions == FlatExpressions \cup
               Operands(BoolOps({Index(i) : i \in Indices})) \cup
               BoolOps(BoolOps({Index(i) : i \in Indices}) \cup {Index(i) : i \in Indices})

\* dict[int, bool] over some of the condition numbers.
ResultDicts == UNION {[S -> BOOLEAN] : S \in SUBSET Indices}
NoResults == [i \in {} |-> FALSE]

\* sorted(set of int)
RECURSIVE sorted(_)
sorted(S) ==
    IF S = {} THEN <<>>
    ELSE LET least == CHOOSE x \in S : \A y \in S : x <= y
         IN  <<least>> \o sorted(S \ {least})

\* A variant that takes the union over the operands of an or.
RECURSIVE get_necessary_or_union(_)
get_necessary_or_union(node) ==
    CASE node.op \in {"and", "or"} ->
             UNION {get_necessary_or_union(node.values[k]) : k \in DOMAIN node.values}
      [] node.op = "const" -> {node.value}
      [] OTHER -> {}

\* priority_groups._get_necessary: and -> union, or -> intersection, a
\* condition number -> itself, anything else (not) -> set().
RECURSIVE get_necessary(_)
get_necessary(node) ==
    CASE node.op = "and" ->
             UNION {get_necessary(node.values[k]) : k \in DOMAIN node.values}
      [] node.op = "or" ->
             IF node.values = <<>> THEN {}
             ELSE {i \in get_necessary(node.values[1]) :
                       \A k \in DOMAIN node.values : i \in get_necessary(node.values[k])}
      [] node.op = "const" -> {node.value}
      [] OTHER -> {}

\* ast.walk: the condition numbers that occur in the tree.
RECURSIVE all_indices(_)
all_indices(node) ==
    IF node.op = "const" THEN {node.value}
    ELSE UNION {all_indices(node.values[k]) : k \in DOMAIN node.values}

\* RuleLogic.priority_groups: [sorted(necessary), sorted(optional)]
priority_groups(logic) ==
    <<sorted(get_necessary(logic)), sorted(all_indices(logic) \ get_necessary(logic))>>

\* RuleLogic.evaluate_expression: and -> all, or -> any, not -> not, a
\* condition number -> False when it is not in results, else results[idx].
RECURSIVE evaluate_expression(_, _)
evaluate_expression(node, results) ==
    CASE node.op = "and" ->
             \A k \in DOMAIN node.values : evaluate_expression(node.values[k], results)
      [] node.op = "or" ->
             \E k \in DOMAIN node.values : evaluate_expression(node.values[k], results)
      [] node.op = "not" -> ~evaluate_expression(node.values[1], results)
      [] node.op = "const" ->
             IF node.value \notin DOMAIN results THEN FALSE ELSE results[node.value]

NoGroups == [done |-> FALSE, groups |-> <<<<>>, <<>>>>]
NoValue == [done |-> FALSE, result |-> FALSE]

\* logic.priority_groups is read.
RuleLogic_priority_groups ==
    /\ rule_logic # NoLogic
    /\ ~groups.done
    /\ groups' = [done |-> TRUE, groups |-> priority_groups(rule_logic)]
    /\ UNCHANGED <<rule_logic, assignment, evaluation, rule_conditions, holds, group_order,
                   step_results, checked, check_result, lpc>>
    /\ UNCHANGED outsideLogic

\* logic.evaluate_expression(results) is called.
RuleLogic_evaluate_expression ==
    /\ rule_logic # NoLogic
    /\ ~evaluation.done
    /\ evaluation' = [done |-> TRUE, result |-> evaluate_expression(rule_logic, assignment)]
    /\ UNCHANGED <<rule_logic, assignment, groups, rule_conditions, holds, group_order,
                   step_results, checked, check_result, lpc>>
    /\ UNCHANGED outsideLogic

\* The conditions of a rule: index -> ConditionTemplate, indices from 0.
ConditionsOf(n) == [0 .. n - 1 -> ConditionTemplate]
NoConditions == <<>>

\* The key of order.sort, doubled to stay in the integers:
\* priority + 0.5 for a condition in priority_groups[0], else priority.
sort_key(conds, high, x) ==
    IF x \in Range(high) THEN 2 * conds[x].priority + 1 ELSE 2 * conds[x].priority

\* order.sort(key=..., reverse=True): descending key; equal keys keep their
\* places.
RECURSIVE sort_reverse(_, _, _)
sort_reverse(conds, high, left) ==
    IF left = {} THEN <<>>
    ELSE LET first == CHOOSE i \in left : \A j \in left \ {i} :
                          \/ sort_key(conds, high, i) > sort_key(conds, high, j)
                          \/ sort_key(conds, high, i) = sort_key(conds, high, j) /\ i < j
         IN  <<first>> \o sort_reverse(conds, high, left \ {first})

\* A variant that leaves the conditions in the order of the configuration.
ConditionGroup_order_unsorted(conds, logic) ==
    SelectSeq(sorted(DOMAIN conds), LAMBDA i : conds[i].valid)

\* ConditionGroup.__init__: the indices sorted by key, the valid ones kept.
ConditionGroup_order(conds, logic) ==
    LET high == IF logic # NoLogic THEN priority_groups(logic)[1] ELSE <<>>
    IN  SelectSeq(sort_reverse(conds, high, DOMAIN conds), LAMBDA i : conds[i].valid)

\* Rule.__init__: the ConditionGroup of the rule is built.
ConditionGroup ==
    /\ lpc = "config"
    /\ group_order' = ConditionGroup_order(rule_conditions, rule_logic)
    /\ lpc' = "ready"
    /\ UNCHANGED <<rule_logic, assignment, groups, evaluation, rule_conditions, holds,
                   step_results, checked, check_result>>
    /\ UNCHANGED outsideLogic

\* rule.check(obj) begins for a content; each condition holds for it or not.
Rule_check ==
    /\ lpc \in {"ready", "done"}
    /\ holds' \in [DOMAIN rule_conditions -> BOOLEAN]
    /\ step_results' = NoResults
    /\ checked' = <<>>
    /\ check_result' = "none"
    /\ lpc' = "checking"
    /\ UNCHANGED <<rule_logic, assignment, groups, evaluation, rule_conditions, group_order>>
    /\ UNCHANGED outsideLogic

\* Without logic: for i in the group: if not await i.check(obj): return False
Rule_check_condition ==
    /\ lpc = "checking"
    /\ rule_logic = NoLogic
    /\ Len(checked) < Len(group_order)
    /\ LET i == group_order[Len(checked) + 1]
       IN  /\ checked' = Append(checked, i)
           /\ step_results' = [k \in DOMAIN step_results \cup {i} |->
                                   IF k = i THEN holds[i] ELSE step_results[k]]
           /\ IF holds[i]
              THEN UNCHANGED <<check_result, lpc>>
              ELSE check_result' = "false" /\ lpc' = "done"
    /\ UNCHANGED <<rule_logic, assignment, groups, evaluation, rule_conditions, holds, group_order>>
    /\ UNCHANGED outsideLogic

\* With logic: the result of the next condition is taken and the expression
\* evaluated over the results known; true ends the check.
Rule_check_logic ==
    /\ lpc = "checking"
    /\ rule_logic # NoLogic
    /\ Len(checked) < Len(group_order)
    /\ LET i == group_order[Len(checked) + 1]
           known == [k \in DOMAIN step_results \cup {i} |->
                         IF k = i THEN holds[i] ELSE step_results[k]]
       IN  /\ checked' = Append(checked, i)
           /\ step_results' = known
           /\ IF evaluate_expression(rule_logic, known)
              THEN check_result' = "true" /\ lpc' = "done"
              ELSE UNCHANGED <<check_result, lpc>>
    /\ UNCHANGED <<rule_logic, assignment, groups, evaluation, rule_conditions, holds, group_order>>
    /\ UNCHANGED outsideLogic

\* The conditions are used up: True without logic, False with logic.
Rule_check_return ==
    /\ lpc = "checking"
    /\ Len(checked) = Len(group_order)
    /\ check_result' = IF rule_logic = NoLogic THEN "true" ELSE "false"
    /\ lpc' = "done"
    /\ UNCHANGED <<rule_logic, assignment, groups, evaluation, rule_conditions, holds,
                   group_order, step_results, checked>>
    /\ UNCHANGED outsideLogic

\* ((0 and 1) or 2), ((0 or 1) and 2), ...
NestedExpressions ==
    {BoolOp(outer, BoolOp(inner, Index(0), Index(1)), Index(MaxIndex)) :
         outer \in {"and", "or"}, inner \in {"and", "or"}}

\* Rules without logic over up to MaxIndex + 1 conditions; rules with logic
\* over valid conditions 0 .. MaxIndex.
PlainRules == {<<conds, NoLogic>> : conds \in UNION {ConditionsOf(n) : n \in 0 .. MaxIndex + 1}}
LogicRules ==
    {<<conds, logic>> : conds \in {c \in ConditionsOf(MaxIndex + 1) : \A i \in Indices : c[i].valid},
                        logic \in FlatExpressions \cup NestedExpressions}

InitLogic(given, dicts) ==
    /\ \E chosen \in given : rule_conditions = chosen[1] /\ rule_logic = chosen[2]
    /\ assignment \in dicts
    /\ groups = NoGroups
    /\ evaluation = NoValue
    /\ holds = <<>>
    /\ group_order = <<>>
    /\ step_results = NoResults
    /\ checked = <<>>
    /\ check_result = "none"
    /\ lpc = "config"

NextLogic ==
    \/ RuleLogic_priority_groups
    \/ RuleLogic_evaluate_expression

NextCheck ==
    \/ ConditionGroup
    \/ Rule_check
    \/ Rule_check_condition
    \/ Rule_check_logic
    \/ Rule_check_return

\* C34: an index that priority_groups reports as necessary is true in every
\* assignment under which evaluate_expression returns true.
NecessaryIsNecessary ==
    (groups.done /\ evaluation.done /\ evaluation.result) =>
        \A i \in Range(groups.groups[1]) : i \in DOMAIN assignment /\ assignment[i]

\* (0 and 1) or 0 holds with 0 true and 1 false: 0 is the one necessary
\* index and 1 is optional.
WitnessNecessaryIsNecessary ==
    /\ rule_logic = BoolOp("or", BoolOp("and", Index(0), Index(1)), Index(0))
    /\ groups.done /\ groups.groups = <<<<0>>, <<1>>>>
    /\ evaluation.done /\ evaluation.result
    /\ 1 \in DOMAIN assignment /\ ~assignment[1]

\* The value of the expression with the result of every condition known.
FullValue == evaluate_expression(rule_logic, holds)

\* The operators of the expression.
RECURSIVE operators(_)
operators(node) ==
    {node.op} \cup UNION {operators(node.values[k]) : k \in DOMAIN node.values}

\* C35: for a rule with a logic expression the result of the check equals
\* the value of the expression under the truth values of all its conditions.
CheckEqualsExpression ==
    (lpc = "done" /\ rule_logic # NoLogic) => ((check_result = "true") <=> FullValue)

\* It does for an expression without not.
CheckEqualsExpressionWithoutNot ==
    (lpc = "done" /\ rule_logic # NoLogic /\ "not" \notin operators(rule_logic)) =>
        ((check_result = "true") <=> FullValue)

\* A check that returned False returned the value of the expression.
FalseIsFalse ==
    (lpc = "done" /\ rule_logic # NoLogic /\ check_result = "false") => ~FullValue

\* (0 and not 1) with both conditions true: 0 is checked first and the
\* check returns True with 1 not checked.
WitnessEarlyTrueWrong ==
    /\ lpc = "done"
    /\ rule_logic = BoolOp("and", Index(0), UnaryOp(Index(1)))
    /\ holds[0] /\ holds[1]
    /\ checked = <<0>>
    /\ check_result = "true"
    /\ ~FullValue

\* The order of the group: of two valid conditions the one with the higher
\* priority comes first, a necessary index of the logic expression counting
\* half a point more, and of two with the same the one configured first.
ComesFirst(i, j) ==
    LET necessary == IF rule_logic = NoLogic THEN {} ELSE get_necessary(rule_logic)
        bump(x) == IF x \in necessary THEN 1 ELSE 0
        pi == 2 * rule_conditions[i].priority + bump(i)
        pj == 2 * rule_conditions[j].priority + bump(j)
    IN  pi > pj \/ (pi = pj /\ i < j)

\* C36: without a logic expression a rule matches if and only if every valid
\* condition is true; the conditions are checked in descending priority,
\* necessary indices of a logic expression half a point up and equal
\* priorities in configured order, and none is checked after the first
\* false one.
StrictAndInPriorityOrder ==
    /\ (lpc = "done" /\ rule_logic = NoLogic) =>
           ((check_result = "true") <=>
                \A i \in DOMAIN rule_conditions : rule_conditions[i].valid => holds[i])
    /\ lpc \in {"checking", "done"} =>
           /\ \A k \in DOMAIN checked : rule_conditions[checked[k]].valid
           /\ \A k, l \in DOMAIN checked : k < l => ComesFirst(checked[k], checked[l])
           /\ \A k \in DOMAIN checked : \A j \in DOMAIN rule_conditions :
                  (rule_conditions[j].valid /\ j \notin Range(checked)) =>
                      ComesFirst(checked[k], j)
    /\ (lpc \in {"checking", "done"} /\ rule_logic = NoLogic) =>
           \A k \in DOMAIN checked : ~holds[checked[k]] => k = Len(checked)

\* Three valid conditions of priorities 50, 60, 60 and no logic: 1 and 2
\* were checked in configured order, 2 was false and 0 was not checked.
WitnessStrictAndInPriorityOrder ==
    /\ lpc = "done"
    /\ rule_logic = NoLogic
    /\ DOMAIN rule_conditions = 0 .. 2
    /\ \A i \in 0 .. 2 : rule_conditions[i].valid
    /\ rule_conditions[0].priority = 50
    /\ rule_conditions[1].priority = 60
    /\ rule_conditions[2].priority = 60
    /\ holds[0] /\ holds[1] /\ ~holds[2]
    /\ checked = <<1, 2>>
    /\ check_result = "false"

\* (0 or 1) and 2 with equal priorities: 2 is necessary and is checked
\* before 0.
WitnessNecessaryFirst ==
    /\ rule_logic = BoolOp("and", BoolOp("or", Index(0), Index(1)), Index(2))
    /\ \A i \in 0 .. 2 : rule_conditions[i].priority = 50
    /\ Len(checked) >= 2
    /\ checked[1] = 2
    /\ checked[2] = 0

(***************************************************************************)
(* Part 20.  Start and Stop around the database and the crawl task         *)
(*           src/src/core/initialize.py, src/src/core/controller.py,       *)
(*           src/src/util/event.py, src/src/db/interface.py,               *)
(*           src/src/tieba/crawler.py, src/src/user/manager.py             *)
(***************************************************************************)

\* The listeners of Start and Stop that touch the users, the database or
\* the crawler, in the order initialize registers them, the listener of
\* UserChange and the crawl task.
StartListeners == <<"load_users", "startup">>
StopListeners == <<"clear_users", "teardown", "start_or_stop">>
LoopTasks == Range(StartListeners) \cup Range(StopListeners) \cup {"update_needs", "crawl"}

\* The task at the head of the ready queue runs up to its next await.
Runs(t, place) == ready # <<>> /\ Head(ready) = t /\ tpc[t] = place

\* The task awaits something outside the loop.
Suspend(t, place) ==
    /\ ready' = Tail(ready)
    /\ suspended' = suspended \cup {t}
    /\ tpc' = [tpc EXCEPT ![t] = place]

\* Controller.start: the flag, and Start.broadcast gathers its listeners:
\* one task each, ready in the order of registration.
Start_gather ==
    /\ caller = "idle"
    /\ ~sys_running
    /\ sys_running' = TRUE
    /\ ready' = ready \o StartListeners
    /\ tpc' = [t \in LoopTasks |-> IF t \in Range(StartListeners) THEN "new" ELSE tpc[t]]
    /\ caller' = "start"
    /\ UNCHANGED <<suspended, engine, disk_users, has_users, has_needs, has_task, op_seen,
                   cancelled_at>>
    /\ UNCHANGED outsideLife

\* Controller.stop: the flag, and Stop.broadcast gathers its listeners.
Stop_gather ==
    /\ caller = "idle"
    /\ sys_running
    /\ sys_running' = FALSE
    /\ ready' = ready \o StopListeners
    /\ tpc' = [t \in LoopTasks |-> IF t \in Range(StopListeners) THEN "new" ELSE tpc[t]]
    /\ caller' = "stop"
    /\ UNCHANGED <<suspended, engine, disk_users, has_users, has_needs, has_task, op_seen,
                   cancelled_at>>
    /\ UNCHANGED outsideLife

\* Every listener of the broadcast has returned: start or stop returns.
broadcast_returns ==
    /\ \/ caller = "start" /\ \A t \in Range(StartListeners) : tpc[t] = "done"
       \/ caller = "stop" /\ \A t \in Range(StopListeners) : tpc[t] = "done"
    /\ caller' = "idle"
    /\ UNCHANGED <<sys_running, ready, suspended, tpc, engine, disk_users, has_users, has_needs,
                   has_task, op_seen, cancelled_at>>
    /\ UNCHANGED outsideLife

\* What a task awaited outside the loop is there: the task is ready again.
loop_wakeup ==
    /\ \E t \in suspended :
          /\ suspended' = suspended \ {t}
          /\ ready' = Append(ready, t)
    /\ UNCHANGED <<sys_running, caller, tpc, engine, disk_users, has_users, has_needs, has_task,
                   op_seen, cancelled_at>>
    /\ UNCHANGED outsideLife

\* UserManager.load_users up to UserChange.broadcast: silent_load_users
\* awaits User.create for each directory; the broadcast gathers
\* Crawler.update_needs.
load_users ==
    /\ \/ /\ Runs("load_users", "new")
          /\ disk_users
          /\ Suspend("load_users", "create")
          /\ UNCHANGED has_users
       \/ /\ \/ Runs("load_users", "new") /\ ~disk_users
             \/ Runs("load_users", "create")
          /\ has_users' = disk_users
          /\ ready' = Append(Tail(ready), "update_needs")
          /\ tpc' = [tpc EXCEPT !["load_users"] = "gather", !["update_needs"] = "new"]
          /\ UNCHANGED suspended
    /\ UNCHANGED <<sys_running, caller, engine, disk_users, has_needs, has_task, op_seen,
                   cancelled_at>>
    /\ UNCHANGED outsideLife

\* The UserChange broadcast has returned: load_users returns.
load_users_return ==
    /\ Runs("load_users", "gather")
    /\ ready' = Tail(ready)
    /\ tpc' = [tpc EXCEPT !["load_users"] = "done"]
    /\ UNCHANGED <<sys_running, caller, suspended, engine, disk_users, has_users, has_needs,
                   has_task, op_seen, cancelled_at>>
    /\ UNCHANGED outsideLife

\* Crawler.update_needs as the listener of UserChange: when the needs
\* changed they are assigned and start_or_stop creates the crawl task
\* (needs, no task, running) or cancels it (no needs or not running, a task).
\* Its return wakes the broadcast of load_users.
update_needs_listener ==
    /\ Runs("update_needs", "new")
    /\ has_needs' = has_users
    /\ IF has_needs # has_users
       THEN IF has_users /\ ~has_task /\ sys_running
            THEN /\ has_task' = TRUE
                 /\ ready' = Tail(ready) \o <<"crawl", "load_users">>
                 /\ tpc' = [tpc EXCEPT !["update_needs"] = "done", !["crawl"] = "new"]
                 /\ UNCHANGED suspended
            ELSE IF (~has_users \/ ~sys_running) /\ has_task
                 THEN /\ has_task' = FALSE
                      /\ ready' = Append(SelectSeq(Tail(ready), LAMBDA t : t # "crawl"),
                                         "load_users")
                      /\ suspended' = suspended \ {"crawl"}
                      /\ tpc' = [tpc EXCEPT !["update_needs"] = "done", !["crawl"] = "none"]
                 ELSE /\ ready' = Append(Tail(ready), "load_users")
                      /\ tpc' = [tpc EXCEPT !["update_needs"] = "done"]
                      /\ UNCHANGED <<has_task, suspended>>
       ELSE /\ ready' = Append(Tail(ready), "load_users")
            /\ tpc' = [tpc EXCEPT !["update_needs"] = "done"]
            /\ UNCHANGED <<has_task, suspended>>
    /\ UNCHANGED <<sys_running, caller, engine, disk_users, has_users, op_seen, cancelled_at>>
    /\ UNCHANGED outsideLife

\* Database.startup up to its await: the engine and the sessionmaker are
\* assigned and create_all is awaited.
Database_startup ==
    /\ Runs("startup", "new")
    /\ engine' = "creating"
    /\ Suspend("startup", "create_all")
    /\ UNCHANGED <<sys_running, caller, disk_users, has_users, has_needs, has_task, op_seen,
                   cancelled_at>>
    /\ UNCHANGED outsideLife

\* create_all is through: startup has finished.
Database_startup_return ==
    /\ Runs("startup", "create_all")
    /\ engine' = "started"
    /\ ready' = Tail(ready)
    /\ tpc' = [tpc EXCEPT !["startup"] = "done"]
    /\ UNCHANGED <<sys_running, caller, suspended, disk_users, has_users, has_needs, has_task,
                   op_seen, cancelled_at>>
    /\ UNCHANGED outsideLife

\* Crawler.crawl: the spider awaits a page of the forum.
crawl_fetch ==
    /\ \/ Runs("crawl", "new")
       \/ Runs("crawl", "saved")
    /\ Suspend("crawl", "fetch")
    /\ UNCHANGED <<sys_running, caller, engine, disk_users, has_users, has_needs, has_task, op_seen,
                   cancelled_at>>
    /\ UNCHANGED outsideLife

\* The page is there: check_and_update_cache or save_items opens a session
\* and awaits the database.
crawl_database ==
    /\ Runs("crawl", "fetch")
    /\ op_seen' = op_seen \cup {engine}
    /\ Suspend("crawl", "session")
    /\ UNCHANGED <<sys_running, caller, engine, disk_users, has_users, has_needs, has_task,
                   cancelled_at>>
    /\ UNCHANGED outsideLife

\* The database has answered: the operation returns.
crawl_database_return ==
    /\ Runs("crawl", "session")
    /\ op_seen' = op_seen \cup {engine}
    /\ ready' = Append(Tail(ready), "crawl")
    /\ tpc' = [tpc EXCEPT !["crawl"] = "saved"]
    /\ UNCHANGED <<sys_running, caller, suspended, engine, disk_users, has_users, has_needs,
                   has_task, cancelled_at>>
    /\ UNCHANGED outsideLife

\* UserManager.clear_users: user.stop() is awaited for each user, then the
\* table is cleared.
clear_users ==
    /\ \/ /\ Runs("clear_users", "new")
          /\ has_users
          /\ Suspend("clear_users", "stop")
          /\ UNCHANGED has_users
       \/ /\ \/ Runs("clear_users", "new") /\ ~has_users
             \/ Runs("clear_users", "stop")
          /\ has_users' = FALSE
          /\ ready' = Tail(ready)
          /\ tpc' = [tpc EXCEPT !["clear_users"] = "done"]
          /\ UNCHANGED suspended
    /\ UNCHANGED <<sys_running, caller, engine, disk_users, has_needs, has_task, op_seen,
                   cancelled_at>>
    /\ UNCHANGED outsideLife

\* Database.teardown: engine.dispose() closes the connections of the pool;
\* with connections to close it awaits them, with none it is through at once.
Database_teardown ==
    /\ Runs("teardown", "new")
    /\ \/ /\ engine' = "disposing"
          /\ Suspend("teardown", "dispose")
       \/ /\ engine' = "disposed"
          /\ ready' = Tail(ready)
          /\ tpc' = [tpc EXCEPT !["teardown"] = "done"]
          /\ UNCHANGED suspended
    /\ UNCHANGED <<sys_running, caller, disk_users, has_users, has_needs, has_task, op_seen,
                   cancelled_at>>
    /\ UNCHANGED outsideLife

\* The connections are closed: teardown returns.
Database_teardown_return ==
    /\ Runs("teardown", "dispose")
    /\ engine' = "disposed"
    /\ ready' = Tail(ready)
    /\ tpc' = [tpc EXCEPT !["teardown"] = "done"]
    /\ UNCHANGED <<sys_running, caller, suspended, disk_users, has_users, has_needs, has_task,
                   op_seen, cancelled_at>>
    /\ UNCHANGED outsideLife

\* Crawler.start_or_stop as the listener of Stop: with a task and the
\* system not running the task is cancelled and forgotten; the cancelled
\* task runs no further statement of crawl.
Crawler_start_or_stop ==
    /\ Runs("start_or_stop", "new")
    /\ IF has_needs /\ ~has_task /\ sys_running
       THEN /\ has_task' = TRUE
            /\ ready' = Append(Tail(ready), "crawl")
            /\ tpc' = [tpc EXCEPT !["start_or_stop"] = "done", !["crawl"] = "new"]
            /\ UNCHANGED <<suspended, cancelled_at>>
       ELSE IF (~has_needs \/ ~sys_running) /\ has_task
            THEN /\ has_task' = FALSE
                 /\ cancelled_at' = cancelled_at \cup {engine}
                 /\ ready' = SelectSeq(Tail(ready), LAMBDA t : t # "crawl")
                 /\ suspended' = suspended \ {"crawl"}
                 /\ tpc' = [tpc EXCEPT !["start_or_stop"] = "done", !["crawl"] = "none"]
            ELSE /\ ready' = Tail(ready)
                 /\ tpc' = [tpc EXCEPT !["start_or_stop"] = "done"]
                 /\ UNCHANGED <<has_task, suspended, cancelled_at>>
    /\ UNCHANGED <<sys_running, caller, engine, disk_users, has_users, has_needs, op_seen>>
    /\ UNCHANGED outsideLife

InitLife(disks) ==
    /\ sys_running = FALSE
    /\ caller = "idle"
    /\ ready = <<>>
    /\ suspended = {}
    /\ tpc = [t \in LoopTasks |-> "none"]
    /\ engine = "unset"
    /\ disk_users \in disks
    /\ has_users = FALSE
    /\ has_needs = FALSE
    /\ has_task = FALSE
    /\ op_seen = {}
    /\ cancelled_at = {}

NextLife ==
    \/ Start_gather
    \/ Stop_gather
    \/ broadcast_returns
    \/ loop_wakeup
    \/ load_users
    \/ load_users_return
    \/ update_needs_listener
    \/ Database_startup
    \/ Database_startup_return
    \/ crawl_fetch
    \/ crawl_database
    \/ crawl_database_return
    \/ clear_users
    \/ Database_teardown
    \/ Database_teardown_return
    \/ Crawler_start_or_stop

\* No operation of the crawl task begins or ends before startup has finished.
OpsAfterStartup == op_seen \subseteq {"started"}

\* task.cancel() on Stop comes before engine.dispose() has closed the pool.
CancelBeforeDispose == "disposed" \notin cancelled_at

\* C37: the crawl task performs database operations only while the database
\* is started: none before Database.startup has finished after
\* Controller.start, and on Controller.stop the task is cancelled before the
\* pool of the database is closed.
DatabaseOpsWhileStarted == OpsAfterStartup /\ CancelBeforeDispose

\* The engine and the sessionmaker are assigned before any operation of the
\* crawl task.
EngineSetBeforeOps == "unset" \notin op_seen

\* An operation of the crawl task has begun while create_all was awaited.
WitnessOpDuringStartup ==
    /\ caller = "start"
    /\ tpc["startup"] = "create_all"
    /\ tpc["crawl"] = "session"
    /\ "creating" \in op_seen

\* The pool was closed when the task was cancelled.
WitnessDisposeBeforeCancel ==
    /\ caller = "stop"
    /\ tpc["teardown"] = "done"
    /\ tpc["start_or_stop"] = "done"
    /\ cancelled_at = {"disposed"}

(***************************************************************************)
(* Part 21.  CacheCleaner and the job of its scheduler                     *)
(*           src/src/util/cache.py, src/src/core/config.py                 *)
(***************************************************************************)

\* Bound on the jobs added while the scheduler is stopped.
MaxPending == 2

\* Values of cleanup_time, "HH:MM", and what
\* map(int, time.split(":")) makes of them.
CleanupTimes == {"04:00", "4:00", "05:30", "23:15"}
hour_minute(time) ==
    CASE time = "04:00" -> [hour |-> 4, minute |-> 0]
      [] time = "4:00" -> [hour |-> 4, minute |-> 0]
      [] time = "05:30" -> [hour |-> 5, minute |-> 30]
      [] time = "23:15" -> [hour |-> 23, minute |-> 15]

Job(id, trigger) == [id |-> id, trigger |-> trigger]

\* The job store of the scheduler under add_job(..., replace_existing=True).
real_add_job(jobs, job) ==
    IF \E k \in DOMAIN jobs : jobs[k].id = job.id
    THEN [k \in DOMAIN jobs |-> IF jobs[k].id = job.id THEN job ELSE jobs[k]]
    ELSE Append(jobs, job)

RECURSIVE real_add_jobs(_, _)
real_add_jobs(jobs, waiting_jobs) ==
    IF waiting_jobs = <<>> THEN jobs
    ELSE real_add_jobs(real_add_job(jobs, Head(waiting_jobs)), Tail(waiting_jobs))

\* scheduler.add_job: a stopped scheduler keeps the job for its start.
add_job(sched, job) ==
    IF sched.running
    THEN [sched EXCEPT !.jobs = real_add_job(sched.jobs, job)]
    ELSE [sched EXCEPT !.pending = Append(sched.pending, job)]

\* CacheCleaner.setup_job: the job at _clear_cache_time.
setup_job(sched, time) ==
    add_job(sched, Job("clear_cache_job", hour_minute(time)))

NoScheduler == [exists |-> FALSE, running |-> FALSE, jobs |-> <<>>, pending |-> <<>>]
NoCleanerCall == [op |-> "none", raised |-> FALSE]

\* CacheCleaner.start: initialize, setup_job, scheduler.start(), which
\* raises on a running scheduler and else adds the jobs kept.
CacheCleaner_start ==
    /\ Len(scheduler.pending) < MaxPending
    /\ LET made == IF scheduler.exists THEN scheduler
                   ELSE [NoScheduler EXCEPT !.exists = TRUE]
           added == setup_job(made, clear_cache_time)
       IN  IF added.running
           THEN /\ scheduler' = added
                /\ cleaner_call' = [op |-> "start", raised |-> TRUE]
           ELSE /\ scheduler' = [added EXCEPT !.running = TRUE,
                                              !.jobs = real_add_jobs(added.jobs, added.pending),
                                              !.pending = <<>>]
                /\ cleaner_call' = [op |-> "start", raised |-> FALSE]
    /\ UNCHANGED <<cleanup_time, clear_cache_time>>
    /\ UNCHANGED outsideCleaner

\* CacheCleaner.stop: a running scheduler is shut down; its memory job
\* store is emptied or not.
CacheCleaner_stop ==
    /\ IF scheduler.exists /\ scheduler.running
       THEN \E kept \in {scheduler.jobs, <<>>} :
                scheduler' = [scheduler EXCEPT !.running = FALSE, !.jobs = kept]
       ELSE UNCHANGED scheduler
    /\ cleaner_call' = [op |-> "stop", raised |-> FALSE]
    /\ UNCHANGED <<cleanup_time, clear_cache_time>>
    /\ UNCHANGED outsideCleaner

\* Controller.update_config assigns a configuration and broadcasts
\* SystemConfigChange; CacheCleaner.update_clear_cache_time: a time that
\* differs is taken over and the job set up, which raises without a
\* scheduler.
CacheCleaner_update_clear_cache_time ==
    /\ Len(scheduler.pending) < MaxPending
    /\ \E time \in CleanupTimes :
          /\ cleanup_time' = time
          /\ IF time # clear_cache_time
             THEN /\ clear_cache_time' = time
                  /\ IF scheduler.exists
                     THEN /\ scheduler' = setup_job(scheduler, time)
                          /\ cleaner_call' = [op |-> "update", raised |-> FALSE]
                     ELSE /\ UNCHANGED scheduler
                          /\ cleaner_call' = [op |-> "update", raised |-> TRUE]
             ELSE /\ UNCHANGED <<clear_cache_time, scheduler>>
                  /\ cleaner_call' = [op |-> "update", raised |-> FALSE]
    /\ UNCHANGED outsideCleaner

\* The configuration read from the file has any of the times; the class
\* attribute is "04:00".
InitCleaner(times) ==
    /\ cleanup_time \in times
    /\ clear_cache_time = "04:00"
    /\ scheduler = NoScheduler
    /\ cleaner_call = NoCleanerCall

NextCleaner ==
    \/ CacheCleaner_start
    \/ CacheCleaner_stop
    \/ CacheCleaner_update_clear_cache_time

\* A running scheduler holds the one job clear_cache_job.
OneJob ==
    scheduler.running =>
        /\ Len(scheduler.jobs) = 1
        /\ scheduler.jobs[1].id = "clear_cache_job"

\* C40: after any sequence of start, update_clear_cache_time and stop, a
\* running scheduler holds exactly one job with id clear_cache_job, and
\* that job is scheduled at the time configured in
\* Controller.config.cleanup_time.
OneJobAtConfiguredTime ==
    scheduler.running =>
        /\ OneJob
        /\ scheduler.jobs[1].trigger = hour_minute(cleanup_time)

\* The job is scheduled at CacheCleaner._clear_cache_time.
OneJobAtCleanerTime ==
    scheduler.running =>
        /\ OneJob
        /\ scheduler.jobs[1].trigger = hour_minute(clear_cache_time)

\* The file says 05:30 and start has run: the job is at 04:00.
WitnessStartIgnoresConfig ==
    /\ cleaner_call = [op |-> "start", raised |-> FALSE]
    /\ cleanup_time = "05:30"
    /\ clear_cache_time = "04:00"
    /\ scheduler.running
    /\ scheduler.jobs = <<Job("clear_cache_job", [hour |-> 4, minute |-> 0])>>

\* A change to 05:30 on the running scheduler has replaced the job.
WitnessJobReplaced ==
    /\ cleaner_call = [op |-> "update", raised |-> FALSE]
    /\ cleanup_time = "05:30"
    /\ scheduler.running
    /\ scheduler.jobs = <<Job("clear_cache_job", [hour |-> 5, minute |-> 30])>>

(***************************************************************************)
(* Specifications                                                          *)
(***************************************************************************)
\* UserConfig as it is created by default, with the rules of the model.
DefaultConfig ==
    [enable |-> TRUE, forum |-> [fname |-> OwnForum, thread |-> TRUE, post |-> TRUE],
     mandatory_confirm |-> FALSE, fast_process |-> TRUE,
     rules |-> << Rule("B1", FALSE, TRUE, TRUE, MixedOps),
                  Rule("W1", TRUE, TRUE, FALSE, StrGroup("ignore")),
                  Rule("B2", FALSE, TRUE, FALSE, StrGroup("delete_and_block")),
                  Rule("W2", TRUE, TRUE, FALSE, StrGroup("ignore")) >>]

ClientStatuses == {"SUCCESS", "MISSING_COOKIE"}

\* A user after User.create, under one of the given configurations.
InitUser(configs, statuses) ==
    /\ config \in configs
    /\ client_status \in statuses
    /\ confirm = [pid \in UserPids |-> NoConfirm]
    /\ proc = NoProc
    /\ opsrun = [pid \in UserPids |-> <<>>]
    /\ runs = [pid \in UserPids |-> 0]
    /\ settled = [pid \in UserPids |-> FALSE]
    /\ reqs = [i \in Slots |-> NoReq]

vars == <<crawlVars, callVars, userVars, ctlVars, busVars, cacheVars, pageVars, tableVars, ruleVars, callsVars, tiebaVars, levelVars, orderVars, etaVars, restartVars, passVars, workerVars, seqVars, needVars, logicVars, lifeVars, cleanerVars>>

InitCall ==
    /\ lastCall = NoCall
    /\ pair = NoPair

\* The crawler task over the shared content table.
InitSpecCrawl ==
    /\ InitCrawl
    /\ InitCall
    /\ InitUser({DefaultConfig}, {"MISSING_COOKIE"})
    /\ InitCtl({[name \in Usernames |-> NoUser]})
    /\ InitBus
    /\ InitCache({None})
    /\ InitPage({1}, {1})
    /\ InitTable({"sqlite"})
    /\ InitRule({<<>>}, {FALSE})
    /\ InitCalls
    /\ InitTieba({"missing"})
    /\ InitLevel
    /\ InitOrder
    /\ InitEta
    /\ InitRestart({FALSE})
    /\ InitPass
    /\ InitWorker
    /\ InitSeq
    /\ InitNeed
    /\ InitLogic({<<NoConditions, NoLogic>>}, {NoResults})
    /\ InitLife({FALSE})
    /\ InitCleaner({"04:00"})
SpecCrawl == InitSpecCrawl /\ [][NextCrawl]_vars

\* The classifier under direct calls.
InitSpecClassifier ==
    /\ InitCrawl
    /\ InitCall
    /\ InitUser({DefaultConfig}, {"MISSING_COOKIE"})
    /\ InitCtl({[name \in Usernames |-> NoUser]})
    /\ InitBus
    /\ InitCache({None})
    /\ InitPage({1}, {1})
    /\ InitTable({"sqlite"})
    /\ InitRule({<<>>}, {FALSE})
    /\ InitCalls
    /\ InitTieba({"missing"})
    /\ InitLevel
    /\ InitOrder
    /\ InitEta
    /\ InitRestart({FALSE})
    /\ InitPass
    /\ InitWorker
    /\ InitSeq
    /\ InitNeed
    /\ InitLogic({<<NoConditions, NoLogic>>}, {NoResults})
    /\ InitLife({FALSE})
    /\ InitCleaner({"04:00"})
SpecClassifier == InitSpecClassifier /\ [][NextClassifier]_vars

\* A user's processing of dispatched content and its confirmations by pid.
InitSpecProcess ==
    /\ InitCrawl
    /\ InitCall
    /\ InitUser(Configs, {"SUCCESS"})
    /\ InitCtl({[name \in Usernames |-> NoUser]})
    /\ InitBus
    /\ InitCache({None})
    /\ InitPage({1}, {1})
    /\ InitTable({"sqlite"})
    /\ InitRule({<<>>}, {FALSE})
    /\ InitCalls
    /\ InitTieba({"missing"})
    /\ InitLevel
    /\ InitOrder
    /\ InitEta
    /\ InitRestart({FALSE})
    /\ InitPass
    /\ InitWorker
    /\ InitSeq
    /\ InitNeed
    /\ InitLogic({<<NoConditions, NoLogic>>}, {NoResults})
    /\ InitLife({FALSE})
    /\ InitCleaner({"04:00"})
SpecProcess == InitSpecProcess /\ [][NextProcess]_vars

\* Calls of operate_confirm by pid, interleaved at their awaits.
InitSpecConfirm ==
    /\ InitCrawl
    /\ InitCall
    /\ InitUser({DefaultConfig, [DefaultConfig EXCEPT !.mandatory_confirm = TRUE]},
                ClientStatuses)
    /\ InitCtl({[name \in Usernames |-> NoUser]})
    /\ InitBus
    /\ InitCache({None})
    /\ InitPage({1}, {1})
    /\ InitTable({"sqlite"})
    /\ InitRule({<<>>}, {FALSE})
    /\ InitCalls
    /\ InitTieba({"missing"})
    /\ InitLevel
    /\ InitOrder
    /\ InitEta
    /\ InitRestart({FALSE})
    /\ InitPass
    /\ InitWorker
    /\ InitSeq
    /\ InitNeed
    /\ InitLogic({<<NoConditions, NoLogic>>}, {NoResults})
    /\ InitLife({FALSE})
    /\ InitCleaner({"04:00"})
SpecConfirm == InitSpecConfirm /\ [][NextConfirm]_vars

\* Confirmation requests of one pid, interleaved at their awaits.
InitSpecRequests ==
    /\ InitCrawl
    /\ InitCall
    /\ InitUser({DefaultConfig, [DefaultConfig EXCEPT !.mandatory_confirm = TRUE]},
                ClientStatuses)
    /\ InitCtl({[name \in Usernames |-> NoUser]})
    /\ InitBus
    /\ InitCache({None})
    /\ InitPage({1}, {1})
    /\ InitTable({"sqlite"})
    /\ InitRule({<<>>}, {FALSE})
    /\ InitCalls
    /\ InitTieba({"missing"})
    /\ InitLevel
    /\ InitOrder
    /\ InitEta
    /\ InitRestart({FALSE})
    /\ InitPass
    /\ InitWorker
    /\ InitSeq
    /\ InitNeed
    /\ InitLogic({<<NoConditions, NoLogic>>}, {NoResults})
    /\ InitLife({FALSE})
    /\ InitCleaner({"04:00"})
SpecRequests == InitSpecRequests /\ [][NextRequests]_vars

\* The lifecycle of the controller, the users and the crawler task.
InitSpecCtl ==
    /\ InitCrawl
    /\ InitCall
    /\ InitUser({DefaultConfig}, {"MISSING_COOKIE"})
    /\ InitCtl([Usernames -> {NoUser, StoredUser}])
    /\ InitBus
    /\ InitCache({None})
    /\ InitPage({1}, {1})
    /\ InitTable({"sqlite"})
    /\ InitRule({<<>>}, {FALSE})
    /\ InitCalls
    /\ InitTieba({"missing"})
    /\ InitLevel
    /\ InitOrder
    /\ InitEta
    /\ InitRestart({FALSE})
    /\ InitPass
    /\ InitWorker
    /\ InitSeq
    /\ InitNeed
    /\ InitLogic({<<NoConditions, NoLogic>>}, {NoResults})
    /\ InitLife({FALSE})
    /\ InitCleaner({"04:00"})
SpecCtl == InitSpecCtl /\ [][NextCtl]_vars

\* One AsyncEvent, its listeners and its broadcasts.
InitSpecBus ==
    /\ InitCrawl
    /\ InitCall
    /\ InitUser({DefaultConfig}, {"MISSING_COOKIE"})
    /\ InitCtl({[name \in Usernames |-> NoUser]})
    /\ InitBus
    /\ InitCache({None})
    /\ InitPage({1}, {1})
    /\ InitTable({"sqlite"})
    /\ InitRule({<<>>}, {FALSE})
    /\ InitCalls
    /\ InitTieba({"missing"})
    /\ InitLevel
    /\ InitOrder
    /\ InitEta
    /\ InitRestart({FALSE})
    /\ InitPass
    /\ InitWorker
    /\ InitSeq
    /\ InitNeed
    /\ InitLogic({<<NoConditions, NoLogic>>}, {NoResults})
    /\ InitLife({FALSE})
    /\ InitCleaner({"04:00"})
SpecBus == InitSpecBus /\ [][NextBus]_vars

\* An ExpireCache whose expire time is changed while entries are set.
InitSpecTtl ==
    /\ InitCrawl
    /\ InitCall
    /\ InitUser({DefaultConfig}, {"MISSING_COOKIE"})
    /\ InitCtl({[name \in Usernames |-> NoUser]})
    /\ InitBus
    /\ InitCache(InitialTimes)
    /\ InitPage({1}, {1})
    /\ InitTable({"sqlite"})
    /\ InitRule({<<>>}, {FALSE})
    /\ InitCalls
    /\ InitTieba({"missing"})
    /\ InitLevel
    /\ InitOrder
    /\ InitEta
    /\ InitRestart({FALSE})
    /\ InitPass
    /\ InitWorker
    /\ InitSeq
    /\ InitNeed
    /\ InitLogic({<<NoConditions, NoLogic>>}, {NoResults})
    /\ InitLife({FALSE})
    /\ InitCleaner({"04:00"})
SpecTtl == InitSpecTtl /\ [][NextTtl]_vars

\* An ExpireCache under reads and ClearCache broadcasts.
InitSpecExpire ==
    /\ InitCrawl
    /\ InitCall
    /\ InitUser({DefaultConfig}, {"MISSING_COOKIE"})
    /\ InitCtl({[name \in Usernames |-> NoUser]})
    /\ InitBus
    /\ InitCache(InitialTimes)
    /\ InitPage({1}, {1})
    /\ InitTable({"sqlite"})
    /\ InitRule({<<>>}, {FALSE})
    /\ InitCalls
    /\ InitTieba({"missing"})
    /\ InitLevel
    /\ InitOrder
    /\ InitEta
    /\ InitRestart({FALSE})
    /\ InitPass
    /\ InitWorker
    /\ InitSeq
    /\ InitNeed
    /\ InitLogic({<<NoConditions, NoLogic>>}, {NoResults})
    /\ InitLife({FALSE})
    /\ InitCleaner({"04:00"})
SpecExpire == InitSpecExpire /\ [][NextExpire]_vars

\* The descent of the spider into threads of every length.
InitSpecPage ==
    /\ InitCrawl
    /\ InitCall
    /\ InitUser({DefaultConfig}, {"MISSING_COOKIE"})
    /\ InitCtl({[name \in Usernames |-> NoUser]})
    /\ InitBus
    /\ InitCache({None})
    /\ InitPage(Forwards, Backwards)
    /\ InitTable({"sqlite"})
    /\ InitRule({<<>>}, {FALSE})
    /\ InitCalls
    /\ InitTieba({"missing"})
    /\ InitLevel
    /\ InitOrder
    /\ InitEta
    /\ InitRestart({FALSE})
    /\ InitPass
    /\ InitWorker
    /\ InitSeq
    /\ InitNeed
    /\ InitLogic({<<NoConditions, NoLogic>>}, {NoResults})
    /\ InitLife({FALSE})
    /\ InitCleaner({"04:00"})
SpecPage == InitSpecPage /\ [][NextPage]_vars

\* The content table under save_items and the classifier.
InitSpecTable ==
    /\ InitCrawl
    /\ InitCall
    /\ InitUser({DefaultConfig}, {"MISSING_COOKIE"})
    /\ InitCtl({[name \in Usernames |-> NoUser]})
    /\ InitBus
    /\ InitCache({None})
    /\ InitPage({1}, {1})
    /\ InitTable(Dialects)
    /\ InitRule({<<>>}, {FALSE})
    /\ InitCalls
    /\ InitTieba({"missing"})
    /\ InitLevel
    /\ InitOrder
    /\ InitEta
    /\ InitRestart({FALSE})
    /\ InitPass
    /\ InitWorker
    /\ InitSeq
    /\ InitNeed
    /\ InitLogic({<<NoConditions, NoLogic>>}, {NoResults})
    /\ InitLife({FALSE})
    /\ InitCleaner({"04:00"})
SpecTable == InitSpecTable /\ [][NextTable]_vars

\* A rule under every choice of valid and invalid conditions.
InitSpecRule ==
    /\ InitCrawl
    /\ InitCall
    /\ InitUser({DefaultConfig}, {"MISSING_COOKIE"})
    /\ InitCtl({[name \in Usernames |-> NoUser]})
    /\ InitBus
    /\ InitCache({None})
    /\ InitPage({1}, {1})
    /\ InitTable({"sqlite"})
    /\ InitRule(ConditionLists, BOOLEAN)
    /\ InitCalls
    /\ InitTieba({"missing"})
    /\ InitLevel
    /\ InitOrder
    /\ InitEta
    /\ InitRestart({FALSE})
    /\ InitPass
    /\ InitWorker
    /\ InitSeq
    /\ InitNeed
    /\ InitLogic({<<NoConditions, NoLogic>>}, {NoResults})
    /\ InitLife({FALSE})
    /\ InitCleaner({"04:00"})
SpecRule == InitSpecRule /\ [][NextRule]_vars

\* Calls of the Controller methods, interleaved at their awaits.
InitSpecCalls ==
    /\ InitCrawl
    /\ InitCall
    /\ InitUser({DefaultConfig}, {"MISSING_COOKIE"})
    /\ InitCtl({[name \in Usernames |-> IF name = "u1" THEN StoredUser ELSE NoUser]})
    /\ InitBus
    /\ InitCache({None})
    /\ InitPage({1}, {1})
    /\ InitTable({"sqlite"})
    /\ InitRule({<<>>}, {FALSE})
    /\ InitCalls
    /\ InitTieba({"missing"})
    /\ InitLevel
    /\ InitOrder
    /\ InitEta
    /\ InitRestart({FALSE})
    /\ InitPass
    /\ InitWorker
    /\ InitSeq
    /\ InitNeed
    /\ InitLogic({<<NoConditions, NoLogic>>}, {NoResults})
    /\ InitLife({FALSE})
    /\ InitCleaner({"04:00"})
SpecCalls == InitSpecCalls /\ [][NextCalls]_vars

\* Calls of operate_confirm by pid with any action.
SpecFailing == InitSpecConfirm /\ [][NextFailing]_vars

\* Contents that hit a rule, under clients created from any cookies.
InitSpecTieba ==
    /\ InitCrawl
    /\ InitCall
    /\ InitUser({DefaultConfig}, {"MISSING_COOKIE"})
    /\ InitCtl({[name \in Usernames |-> NoUser]})
    /\ InitBus
    /\ InitCache({None})
    /\ InitPage({1}, {1})
    /\ InitTable({"sqlite"})
    /\ InitRule({<<>>}, {FALSE})
    /\ InitCalls
    /\ InitTieba(Cookies)
    /\ InitLevel
    /\ InitOrder
    /\ InitEta
    /\ InitRestart({FALSE})
    /\ InitPass
    /\ InitWorker
    /\ InitSeq
    /\ InitNeed
    /\ InitLogic({<<NoConditions, NoLogic>>}, {NoResults})
    /\ InitLife({FALSE})
    /\ InitCleaner({"04:00"})
SpecTieba == InitSpecTieba /\ [][NextTieba]_vars

\* Passes of Crawler.crawl over one forum, as far as user_level goes.
InitSpecLevel ==
    /\ InitCrawl
    /\ InitCall
    /\ InitUser({DefaultConfig}, {"MISSING_COOKIE"})
    /\ InitCtl({[name \in Usernames |-> NoUser]})
    /\ InitBus
    /\ InitCache({None})
    /\ InitPage({1}, {1})
    /\ InitTable({"sqlite"})
    /\ InitRule({<<>>}, {FALSE})
    /\ InitCalls
    /\ InitTieba({"missing"})
    /\ InitLevel
    /\ InitOrder
    /\ InitEta
    /\ InitRestart({FALSE})
    /\ InitPass
    /\ InitWorker
    /\ InitSeq
    /\ InitNeed
    /\ InitLogic({<<NoConditions, NoLogic>>}, {NoResults})
    /\ InitLife({FALSE})
    /\ InitCleaner({"04:00"})
SpecLevel == InitSpecLevel /\ [][NextLevel]_vars

\* Passes of Spider.crawl, as far as the order of its yields goes.
InitSpecOrder ==
    /\ InitCrawl
    /\ InitCall
    /\ InitUser({DefaultConfig}, {"MISSING_COOKIE"})
    /\ InitCtl({[name \in Usernames |-> NoUser]})
    /\ InitBus
    /\ InitCache({None})
    /\ InitPage({1}, {1})
    /\ InitTable({"sqlite"})
    /\ InitRule({<<>>}, {FALSE})
    /\ InitCalls
    /\ InitTieba({"missing"})
    /\ InitLevel
    /\ InitOrder
    /\ InitEta
    /\ InitRestart({FALSE})
    /\ InitPass
    /\ InitWorker
    /\ InitSeq
    /\ InitNeed
    /\ InitLogic({<<NoConditions, NoLogic>>}, {NoResults})
    /\ InitLife({FALSE})
    /\ InitCleaner({"04:00"})
SpecOrder == InitSpecOrder /\ [][NextOrder]_vars

\* Passes of one spider against the clock.
InitSpecEta ==
    /\ InitCrawl
    /\ InitCall
    /\ InitUser({DefaultConfig}, {"MISSING_COOKIE"})
    /\ InitCtl({[name \in Usernames |-> NoUser]})
    /\ InitBus
    /\ InitCache({None})
    /\ InitPage({1}, {1})
    /\ InitTable({"sqlite"})
    /\ InitRule({<<>>}, {FALSE})
    /\ InitCalls
    /\ InitTieba({"missing"})
    /\ InitLevel
    /\ InitOrder
    /\ InitEta
    /\ InitRestart({FALSE})
    /\ InitPass
    /\ InitWorker
    /\ InitSeq
    /\ InitNeed
    /\ InitLogic({<<NoConditions, NoLogic>>}, {NoResults})
    /\ InitLife({FALSE})
    /\ InitCleaner({"04:00"})
SpecEta == InitSpecEta /\ [][NextEta]_vars

\* Changes of the system configuration while a crawl task may exist.
InitSpecRestart ==
    /\ InitCrawl
    /\ InitCall
    /\ InitUser({DefaultConfig}, {"MISSING_COOKIE"})
    /\ InitCtl({[name \in Usernames |-> NoUser]})
    /\ InitBus
    /\ InitCache({None})
    /\ InitPage({1}, {1})
    /\ InitTable({"sqlite"})
    /\ InitRule({<<>>}, {FALSE})
    /\ InitCalls
    /\ InitTieba({"missing"})
    /\ InitLevel
    /\ InitOrder
    /\ InitEta
    /\ InitRestart(BOOLEAN)
    /\ InitPass
    /\ InitWorker
    /\ InitSeq
    /\ InitNeed
    /\ InitLogic({<<NoConditions, NoLogic>>}, {NoResults})
    /\ InitLife({FALSE})
    /\ InitCleaner({"04:00"})
SpecRestart == InitSpecRestart /\ [][NextRestart]_vars

\* The crawl task with failing requests and failing storage.
InitSpecPass ==
    /\ InitCrawl
    /\ InitCall
    /\ InitUser({DefaultConfig}, {"MISSING_COOKIE"})
    /\ InitCtl({[name \in Usernames |-> NoUser]})
    /\ InitBus
    /\ InitCache({None})
    /\ InitPage({1}, {1})
    /\ InitTable({"sqlite"})
    /\ InitRule({<<>>}, {FALSE})
    /\ InitCalls
    /\ InitTieba({"missing"})
    /\ InitLevel
    /\ InitOrder
    /\ InitEta
    /\ InitRestart({FALSE})
    /\ InitPass
    /\ InitWorker
    /\ InitSeq
    /\ InitNeed
    /\ InitLogic({<<NoConditions, NoLogic>>}, {NoResults})
    /\ InitLife({FALSE})
    /\ InitCleaner({"04:00"})
SpecPass == InitSpecPass /\ [][NextPass]_vars

\* The same, with the event loop running the task whenever it can: every
\* awaited call returns or raises.
SpecPassFair == InitSpecPass /\ [][NextPass]_vars /\ WF_vars(Crawler_crawl)

\* Users created, replaced, deleted and cleared, and content dispatched.
InitSpecWorker ==
    /\ InitCrawl
    /\ InitCall
    /\ InitUser({DefaultConfig}, {"MISSING_COOKIE"})
    /\ InitCtl({[name \in Usernames |-> NoUser]})
    /\ InitBus
    /\ InitCache({None})
    /\ InitPage({1}, {1})
    /\ InitTable({"sqlite"})
    /\ InitRule({<<>>}, {FALSE})
    /\ InitCalls
    /\ InitTieba({"missing"})
    /\ InitLevel
    /\ InitOrder
    /\ InitEta
    /\ InitRestart({FALSE})
    /\ InitPass
    /\ InitWorker
    /\ InitSeq
    /\ InitNeed
    /\ InitLogic({<<NoConditions, NoLogic>>}, {NoResults})
    /\ InitLife({FALSE})
    /\ InitCleaner({"04:00"})
SpecWorker == InitSpecWorker /\ [][NextWorker]_vars

\* Content dispatched to the users while the crawl task is restarted.
InitSpecSeq ==
    /\ InitCrawl
    /\ InitCall
    /\ InitUser({DefaultConfig}, {"MISSING_COOKIE"})
    /\ InitCtl({[name \in Usernames |-> NoUser]})
    /\ InitBus
    /\ InitCache({None})
    /\ InitPage({1}, {1})
    /\ InitTable({"sqlite"})
    /\ InitRule({<<>>}, {FALSE})
    /\ InitCalls
    /\ InitTieba({"missing"})
    /\ InitLevel
    /\ InitOrder
    /\ InitEta
    /\ InitRestart({FALSE})
    /\ InitPass
    /\ InitWorker
    /\ InitSeq
    /\ InitNeed
    /\ InitLogic({<<NoConditions, NoLogic>>}, {NoResults})
    /\ InitLife({FALSE})
    /\ InitCleaner({"04:00"})
SpecSeq == InitSpecSeq /\ [][NextSeq]_vars

\* Users changed and Crawler.needs recomputed.
InitSpecNeed ==
    /\ InitCrawl
    /\ InitCall
    /\ InitUser({DefaultConfig}, {"MISSING_COOKIE"})
    /\ InitCtl({[name \in Usernames |-> NoUser]})
    /\ InitBus
    /\ InitCache({None})
    /\ InitPage({1}, {1})
    /\ InitTable({"sqlite"})
    /\ InitRule({<<>>}, {FALSE})
    /\ InitCalls
    /\ InitTieba({"missing"})
    /\ InitLevel
    /\ InitOrder
    /\ InitEta
    /\ InitRestart({FALSE})
    /\ InitPass
    /\ InitWorker
    /\ InitSeq
    /\ InitNeed
    /\ InitLogic({<<NoConditions, NoLogic>>}, {NoResults})
    /\ InitLife({FALSE})
    /\ InitCleaner({"04:00"})
SpecNeed == InitSpecNeed /\ [][NextNeed]_vars

\* Expressions and assignments, priority_groups and evaluate_expression applied.
InitSpecLogic ==
    /\ InitCrawl
    /\ InitCall
    /\ InitUser({DefaultConfig}, {"MISSING_COOKIE"})
    /\ InitCtl({[name \in Usernames |-> NoUser]})
    /\ InitBus
    /\ InitCache({None})
    /\ InitPage({1}, {1})
    /\ InitTable({"sqlite"})
    /\ InitRule({<<>>}, {FALSE})
    /\ InitCalls
    /\ InitTieba({"missing"})
    /\ InitLevel
    /\ InitOrder
    /\ InitEta
    /\ InitRestart({FALSE})
    /\ InitPass
    /\ InitWorker
    /\ InitSeq
    /\ InitNeed
    /\ InitLogic({<<NoConditions, logic>> : logic \in Expressions}, ResultDicts)
    /\ InitLife({FALSE})
    /\ InitCleaner({"04:00"})
SpecLogic == InitSpecLogic /\ [][NextLogic]_vars

\* The conditions of a rule checked for contents.
InitSpecCheck ==
    /\ InitCrawl
    /\ InitCall
    /\ InitUser({DefaultConfig}, {"MISSING_COOKIE"})
    /\ InitCtl({[name \in Usernames |-> NoUser]})
    /\ InitBus
    /\ InitCache({None})
    /\ InitPage({1}, {1})
    /\ InitTable({"sqlite"})
    /\ InitRule({<<>>}, {FALSE})
    /\ InitCalls
    /\ InitTieba({"missing"})
    /\ InitLevel
    /\ InitOrder
    /\ InitEta
    /\ InitRestart({FALSE})
    /\ InitPass
    /\ InitWorker
    /\ InitSeq
    /\ InitNeed
    /\ InitLogic(PlainRules \cup LogicRules, {NoResults})
    /\ InitLife({FALSE})
    /\ InitCleaner({"04:00"})
SpecCheck == InitSpecCheck /\ [][NextCheck]_vars

\* Controller.start and stop, their listeners and the crawl task on the loop.
InitSpecLife ==
    /\ InitCrawl
    /\ InitCall
    /\ InitUser({DefaultConfig}, {"MISSING_COOKIE"})
    /\ InitCtl({[name \in Usernames |-> NoUser]})
    /\ InitBus
    /\ InitCache({None})
    /\ InitPage({1}, {1})
    /\ InitTable({"sqlite"})
    /\ InitRule({<<>>}, {FALSE})
    /\ InitCalls
    /\ InitTieba({"missing"})
    /\ InitLevel
    /\ InitOrder
    /\ InitEta
    /\ InitRestart({FALSE})
    /\ InitPass
    /\ InitWorker
    /\ InitSeq
    /\ InitNeed
    /\ InitLogic({<<NoConditions, NoLogic>>}, {NoResults})
    /\ InitLife(BOOLEAN)
    /\ InitCleaner({"04:00"})
SpecLife == InitSpecLife /\ [][NextLife]_vars

\* Calls of CacheCleaner in any order.
InitSpecCleaner ==
    /\ InitCrawl
    /\ InitCall
    /\ InitUser({DefaultConfig}, {"MISSING_COOKIE"})
    /\ InitCtl({[name \in Usernames |-> NoUser]})
    /\ InitBus
    /\ InitCache({None})
    /\ InitPage({1}, {1})
    /\ InitTable({"sqlite"})
    /\ InitRule({<<>>}, {FALSE})
    /\ InitCalls
    /\ InitTieba({"missing"})
    /\ InitLevel
    /\ InitOrder
    /\ InitEta
    /\ InitRestart({FALSE})
    /\ InitPass
    /\ InitWorker
    /\ InitSeq
    /\ InitNeed
    /\ InitLogic({<<NoConditions, NoLogic>>}, {NoResults})
    /\ InitLife({FALSE})
    /\ InitCleaner(CleanupTimes)
SpecCleaner == InitSpecCleaner /\ [][NextCleaner]_vars

====
